---- MODULE Spec2Model ----
(***************************************************************************)
(* MusicPlayer / AudioPlugin speech arbitration of py-xiaozhi.             *)
(*                                                                         *)
(* Time and track positions are counted in whole units, and the decoder    *)
(* emits one frame per unit: frame i holds the track content of [i, i+1).  *)
(* Every coroutine is cut at its awaits: a handler is a sequence of        *)
(* actions, and the decoder reader tasks, the playback (drain) tasks, the  *)
(* render callback and the clock run between them.  Transport commands and *)
(* speech events are handled one at a time.  written[s] is the last frame  *)
(* of session s that went into the shared playback queue (-1: none).       *)
(***************************************************************************)
EXTENDS Integers, Sequences, FiniteSets, TLC

\* ------------------------------------------------------------------ bounds
MaxCmds == 5          \* transport commands and speech events handled in a run
MaxSessions == 2      \* decoders (with their queue and playback task) created
MaxTime == 2          \* clock ticks after Epoch
TrackLen == 2         \* frames in every track file
MusicQueueCap == 1    \* stands for asyncio.Queue(maxsize=100) of the player
OutputCap == 1        \* stands for AudioCodec._output_buffer (maxsize=500)
MaxPos == 5           \* seek requests of SpecClamp range over -MaxPos..MaxPos
MaxDur == 5           \* track durations of SpecClamp range over 0..MaxDur

\* time.time() at the start of a run: any value far above every position
Epoch == 10

Files == {1, 2}
\* total_duration = metadata.duration or 0: file 2 carries no duration tag
Duration(f) == IF f = 1 THEN TrackLen ELSE 0
SeekRequests == {-1, 1, TrackLen + 1}
Sessions == 1..MaxSessions
EOF == -1             \* the None sentinel of the decoder

VARIABLES
  is_playing, paused, pause_source, current_position, start_play_time,
  total_duration, current_file, deferred_path, deferred_pos,
  decoder, music_queue, playback_task,
  speaking, now, decs, loops, queues, output_buffer,
  op, user_paused, ncmds, nsess, written,
  clamp, md, codec, wake, plugin, mix

vars == <<is_playing, paused, pause_source, current_position, start_play_time,
          total_duration, current_file, deferred_path, deferred_pos,
          decoder, music_queue, playback_task,
          speaking, now, decs, loops, queues, output_buffer,
          op, user_paused, ncmds, nsess, written,
          clamp, md, codec, wake, plugin, mix>>

\* the components modelled on their own: the seek range limit, one
\* MusicDecoder, the AudioCodec, a WakeWordDetector, the silence window of the
\* AudioPlugin, downmix_to_mono
unitVars == <<clamp, md, codec, wake, plugin, mix>>

\* ---------------------------------------------------------------- helpers
Min(a, b) == IF a < b THEN a ELSE b
Max(a, b) == IF a > b THEN a ELSE b

NoDecoder == [st |-> "none", file |-> 0, pos |-> 0, count |-> 0, t0 |-> 0]
DeadDecoder == [st |-> "done", file |-> 0, pos |-> 0, count |-> 0, t0 |-> 0]
NoLoop == [pc |-> "none", q |-> 0, f |-> <<0, 0>>]
NoClamp == [pos |-> 0, dur |-> 0, out |-> 0, done |-> FALSE]

\* a MusicDecoder as its constructor leaves it, before start_decode
NoMd == [stopped |-> FALSE, start |-> "idle", decode_task |-> "none",
         process |-> "none", stop |-> "idle", returned |-> FALSE,
         terminated |-> FALSE, killed |-> FALSE, read |-> 0,
         output_queue |-> <<>>]

\* no frame: no write_pcm_direct is waiting, no capture frame is in hand
NoItem == [id |-> 0, src |-> "none", raw |-> <<>>, pcm |-> <<>>]

\* no capture callback is running
NoCallback == [active |-> FALSE, frame |-> <<>>, i |-> 0, enc |-> "none",
               sent |-> FALSE, got |-> {}, raised |-> {}, touched |-> FALSE]

\* the objects that register as audio listeners
Listeners == {1, 2, 3}

\* the sounddevice stream objects a codec creates, numbered as created;
\* a stream is "open" (created or stopped), "active" (started) or "closed"
MaxStreams == 4       \* stream objects created in a run
StreamIds == 1..MaxStreams
NoStream == [dir |-> "none", st |-> "none"]

\* an AudioCodec as its constructor leaves it, with a WakeWordDetector's
\* queue beside it.  enqueued and wake_enqueued list the ids of the items put
\* into the two queues, *_popped tell whether a consumer has taken any; fed
\* counts the samples the capture side has received, last_op and last_call
\* remember the calls of add_audio_listener and remove_audio_listener.
\* input_stream and output_stream name a stream object (0 for None), opus and
\* resamplers tell whether the codec and resampler handles are held,
\* close_pc and close_by follow the one close() that is past its guard,
\* last_call and nreturns the lifecycle call that returned last.
\* output_resampler tells whether the render side resamples ("unset" until
\* the first render callback shows it), resample_output_buffer counts the
\* resampled samples buffered, cb_popped and cb_out are the number of items
\* the last render callback took and what it wrote to the device.
NoCodec ==
  [output_buffer |-> <<>>, enqueued |-> <<>>, out_popped |-> FALSE,
   nwrites |-> 0, last_write |-> "none",
   pcm_wait |-> NoItem, pcm_result |-> "none",
   wake_queue |-> <<>>, wake_enqueued |-> <<>>, wake_popped |-> FALSE,
   has_resampler |-> FALSE, resample_input_buffer |-> <<>>, fed |-> 0,
   ncallbacks |-> 0, last_cb |-> "none", cb |-> NoCallback,
   audio_listeners |-> <<>>, last_op |-> [l \in Listeners |-> "none"],
   last_call |-> <<"none", 0>>, nops |-> 0,
   is_closing |-> FALSE, input_stream |-> 0, output_stream |-> 0,
   streams |-> [id \in StreamIds |-> NoStream], nstreams |-> 0,
   opus |-> FALSE, resamplers |-> FALSE, encoded_callback |-> FALSE,
   close_pc |-> "idle", close_by |-> "none",
   life_call |-> <<"none", "none">>, ncalls |-> 0, nreturns |-> 0,
   output_resampler |-> "unset", resample_output_buffer |-> 0,
   cb_popped |-> 0, cb_out |-> "none"]

\* a WakeWordDetector as its constructor leaves it, with the clock beside it.
\* detections lists the times at which the classifier returned a result,
\* reported the times at which the detection callback was invoked.
NoWake == [now |-> Epoch, last_detection_time |-> 0, detections |-> <<>>,
           reported |-> <<>>]

\* the calls of AudioPlugin.on_device_state_changed that can be in progress
Handlers == {1, 2}

\* an AudioPlugin as its constructor leaves it, with the clock beside it.
\* calls[h] is a call of on_device_state_changed: where it stands and when it
\* saw the device enter the listening state; packets counts the captured
\* packets offered for sending, forwarded tells whether the last one went to
\* the protocol.
NoPlugin == [in_silence_period |-> FALSE, now |-> 0,
             calls |-> [h \in Handlers |-> [pc |-> "idle", t0 |-> 0]],
             packets |-> 0, forwarded |-> FALSE]

\* no array has been handed to downmix_to_mono
NoMix == [bits |-> 0, x |-> <<>>, y |-> 0, done |-> FALSE]

\* no handler is running; kind is the command or event handled last
Idle == [kind |-> "idle", pc |-> "", sid |-> 0, pre |-> "", pos |-> 0]
Finished(kind) == [Idle EXCEPT !.kind = kind]

\* The states of the player, read off its fields.
PlaybackStateOf(playing, isPaused, deferred, source) ==
  IF ~playing THEN "Stopped"
  ELSE IF ~isPaused THEN "Playing"
  ELSE IF deferred # 0 THEN "DeferredPending"
  ELSE IF source = "manual" THEN "PausedManual"
  ELSE IF source = "tts" THEN "PausedForSpeech"
  ELSE "PausedNoSource"

PlaybackState ==
  PlaybackStateOf(is_playing, paused, deferred_path, pause_source)

\* a handler starts: what it was called on
Begin(kind) ==
  [kind |-> kind, pc |-> "", sid |-> 0, pre |-> PlaybackState, pos |-> 0]

\* MusicDecoder.stop() on session s: the reader task is cancelled
DecoderStop(d, s) ==
  IF s # 0 /\ d[s].st \in {"new", "run"}
  THEN [d EXCEPT ![s] = DeadDecoder]
  ELSE d

LoopDone == [pc |-> "done", q |-> 0, f |-> <<0, 0>>]
NewLoop == [pc |-> "top", q |-> 0, f |-> <<0, 0>>]

\* a playback task that has not ended
LoopAlive(l) == l.pc \notin {"none", "done"}

\* cancel() of a playback task and waiting for it
CancelLoop(ls, t) ==
  IF t # 0 /\ LoopAlive(ls[t]) THEN [ls EXCEPT ![t] = LoopDone] ELSE ls

\* a transport command or speech event may be handled
CanHandle == op.pc = "" /\ ncmds < MaxCmds
\* ... one that may create a decoder
CanStart == CanHandle /\ nsess < MaxSessions

\* while not queue.empty(): queue.get_nowait()
Drain(qs, q) == IF q # 0 THEN [qs EXCEPT ![q] = <<>>] ELSE qs

InitPlayer ==
  /\ is_playing = FALSE /\ paused = FALSE /\ pause_source = "none"
  /\ current_position = 0 /\ start_play_time = 0 /\ total_duration = 0
  /\ current_file = 0 /\ deferred_path = 0 /\ deferred_pos = 0
  /\ decoder = 0 /\ music_queue = 0 /\ playback_task = 0
  /\ speaking = FALSE /\ now = Epoch
  /\ decs = [s \in Sessions |-> NoDecoder]
  /\ loops = [s \in Sessions |-> NoLoop]
  /\ queues = [s \in Sessions |-> <<>>]
  /\ output_buffer = <<>>
  /\ op = Idle /\ user_paused = FALSE /\ ncmds = 0
  /\ nsess = 0
  /\ written = [s \in Sessions |-> -1]

\* every component modelled on its own, as constructed
UnitsIdle ==
  /\ clamp = NoClamp /\ md = NoMd /\ codec = NoCodec
  /\ wake = NoWake /\ plugin = NoPlugin /\ mix = NoMix

Init == InitPlayer /\ UnitsIdle

playerFlags == <<is_playing, paused, pause_source>>
playerPos == <<current_position, start_play_time, total_duration>>
playerFile == <<current_file, deferred_path, deferred_pos>>
playerRefs == <<decoder, music_queue, playback_task>>
playerVars == <<playerFlags, playerPos, playerFile, playerRefs>>
handlerVars == <<op, user_paused, ncmds>>

\* ------------------------------------------------------ background tasks
\* _handle_playback_finished with its test of is_playing inverted
HandlePlaybackFinishedNoStop ==
  UNCHANGED <<decs, decoder, is_playing, paused, current_position>>

\* MusicPlayer._handle_playback_finished
HandlePlaybackFinished ==
  IF is_playing
  THEN /\ decs' = DecoderStop(decs, decoder)
       /\ decoder' = 0
       /\ is_playing' = FALSE
       /\ paused' = FALSE
       /\ current_position' = total_duration
  ELSE UNCHANGED <<decs, decoder, is_playing, paused, current_position>>

\* the limiter letting every frame through one period early
RateAllowsOneEarly(d) == now - d.t0 >= d.count - 1

\* the wall-clock limiter: frame number n is enqueued no earlier than n frame
\* periods after the reader task started
RateAllows(d) == now - d.t0 >= d.count + 1

\* MusicDecoder._read_pcm_stream: one frame read, paced and enqueued
DecoderEmit(s) ==
  /\ decs[s].st = "run"
  /\ decs[s].pos + decs[s].count < TrackLen
  /\ RateAllows(decs[s])
  /\ Len(queues[s]) < MusicQueueCap
  /\ queues' = [queues EXCEPT ![s] = Append(@, decs[s].pos + decs[s].count)]
  /\ decs' = [decs EXCEPT ![s].count = @ + 1]
  /\ UNCHANGED <<playerVars, handlerVars, speaking, now, loops, output_buffer,
                 nsess, written, unitVars>>

\* ... the put times out on a full queue and the frame is skipped
DecoderDrop(s) ==
  /\ decs[s].st = "run"
  /\ decs[s].pos + decs[s].count < TrackLen
  /\ RateAllows(decs[s])
  /\ Len(queues[s]) >= MusicQueueCap
  /\ decs' = [decs EXCEPT ![s].count = @ + 1]
  /\ UNCHANGED <<playerVars, handlerVars, speaking, now, loops, queues,
                 output_buffer, nsess, written, unitVars>>

\* ... end of the subprocess's output: the sentinel is enqueued, the task ends
DecoderEof(s) ==
  /\ decs[s].st = "run"
  /\ decs[s].pos + decs[s].count >= TrackLen
  /\ Len(queues[s]) < MusicQueueCap
  /\ queues' = [queues EXCEPT ![s] = Append(@, EOF)]
  /\ decs' = [decs EXCEPT ![s] = DeadDecoder]
  /\ UNCHANGED <<playerVars, handlerVars, speaking, now, loops, output_buffer,
                 nsess, written, unitVars>>

\* MusicPlayer._playback_loop, the loop test: leave when not playing, sleep
\* while paused, otherwise wait on the queue the player holds now
LoopTest(playing, isPaused) ==
  IF ~playing THEN LoopDone
  ELSE IF isPaused THEN NewLoop
  ELSE [pc |-> "get", q |-> music_queue, f |-> <<0, 0>>]

\* ... the task's first run, or its 100 ms sleep ending while not paused
LoopTop(l) ==
  /\ loops[l].pc = "top"
  /\ ~is_playing \/ ~paused
  /\ loops' = [loops EXCEPT ![l] = LoopTest(is_playing, paused)]
  /\ UNCHANGED <<playerVars, handlerVars, speaking, now, decs, queues,
                 output_buffer, nsess, written, unitVars>>

\* ... an item arrives: the sentinel ends playback; a frame is handed to
\* AudioCodec.write_pcm_direct in the same step of the event loop, which
\* enqueues it at once (safe_queue_put) or, on a full shared queue, leaves
\* the task waiting in put
LoopGet(l) ==
  /\ loops[l].pc = "get"
  /\ queues[loops[l].q] # <<>>
  /\ LET q == loops[l].q
         h == Head(queues[q])
     IN /\ queues' = [queues EXCEPT ![q] = Tail(@)]
        /\ IF h = EOF
           THEN /\ HandlePlaybackFinished
                /\ loops' = [loops EXCEPT ![l] = LoopDone]
                /\ UNCHANGED <<output_buffer, written>>
           ELSE /\ IF Len(output_buffer) < OutputCap
                   THEN /\ output_buffer' = Append(output_buffer, <<q, h>>)
                        /\ written' = [written EXCEPT ![q] = Max(@, h)]
                        /\ loops' = [loops EXCEPT ![l] =
                                       LoopTest(is_playing, paused)]
                   ELSE /\ loops' = [loops EXCEPT ![l] =
                                       [pc |-> "write", q |-> 0, f |-> <<q, h>>]]
                        /\ UNCHANGED <<output_buffer, written>>
                /\ UNCHANGED <<decs, decoder, is_playing, paused,
                               current_position>>
  /\ UNCHANGED <<pause_source, start_play_time, total_duration, playerFile,
                 music_queue, playback_task, handlerVars,
                 speaking, now, nsess, unitVars>>

\* ... the 5 s wait_for on an empty queue times out and the loop goes round
LoopGetTimeout(l) ==
  /\ loops[l].pc = "get"
  /\ queues[loops[l].q] = <<>>
  /\ loops' = [loops EXCEPT ![l] = LoopTest(is_playing, paused)]
  /\ loops' # loops
  /\ UNCHANGED <<playerVars, handlerVars, speaking, now, decs, queues,
                 output_buffer, nsess, written, unitVars>>

\* AudioCodec.write_pcm_direct: the shared queue has room again and the
\* waiting put completes, and the loop goes round
LoopWrite(l) ==
  /\ loops[l].pc = "write"
  /\ Len(output_buffer) < OutputCap
  /\ output_buffer' = Append(output_buffer, loops[l].f)
  /\ written' = [written EXCEPT ![loops[l].f[1]] = Max(@, loops[l].f[2])]
  /\ loops' = [loops EXCEPT ![l] = LoopTest(is_playing, paused)]
  /\ UNCHANGED <<playerVars, handlerVars, speaking, now, decs, queues, nsess,
                 unitVars>>

\* ... the shared queue stays full for 2 s: the frame is dropped
LoopWriteTimeout(l) ==
  /\ loops[l].pc = "write"
  /\ Len(output_buffer) >= OutputCap
  /\ loops' = [loops EXCEPT ![l] = LoopTest(is_playing, paused)]
  /\ UNCHANGED <<playerVars, handlerVars, speaking, now, decs, queues,
                 output_buffer, nsess, written, unitVars>>

\* AudioCodec._output_callback_direct: the render callback pops one item
Render ==
  /\ output_buffer # <<>>
  /\ output_buffer' = Tail(output_buffer)
  /\ UNCHANGED <<playerVars, handlerVars, speaking, now, decs, loops, queues,
                 nsess, written, unitVars>>

\* time.time() advances
Tick ==
  /\ now < Epoch + MaxTime
  /\ now' = now + 1
  /\ UNCHANGED <<playerVars, handlerVars, speaking, decs, loops, queues,
                 output_buffer, nsess, written, unitVars>>

\* ------------------------------------------------- handlers: shared parts
\* on_incoming_json clears the shared queue after _resume_music_after_tts
AfterHandler(kind, ob) == IF kind = "tts_stop" THEN <<>> ELSE ob

NewDecoder(f, p) == [st |-> "new", file |-> f, pos |-> p, count |-> 0, t0 |-> 0]

\* _start_playback without its test of app.is_speaking()
StartPlaybackEnterNoDefer(o, f, p, sp, qs, ob, dcur) ==
  /\ deferred_path' = 0
  /\ deferred_pos' = 0
  /\ current_file' = f
  /\ nsess' = nsess + 1
  /\ music_queue' = nsess + 1
  /\ decoder' = nsess + 1
  /\ queues' = [qs EXCEPT ![nsess + 1] = <<>>]
  /\ decs' = [decs EXCEPT ![nsess + 1] = NewDecoder(f, p)]
  /\ UNCHANGED <<is_playing, paused>>
  /\ op' = [o EXCEPT !.pc = "sp_wait", !.pos = p, !.sid = nsess + 1]
  /\ output_buffer' = ob

\* MusicPlayer._start_playback up to its await of start_decode.  sp is
\* app.is_speaking(); qs, ob and dcur are the queues, the shared queue and the
\* decoder reference as the caller leaves them.
StartPlaybackEnter(o, f, p, sp, qs, ob, dcur) ==
  IF sp
  THEN /\ deferred_path' = f
       /\ deferred_pos' = p
       /\ is_playing' = TRUE
       /\ paused' = TRUE
       /\ decoder' = dcur
       /\ queues' = qs
       /\ UNCHANGED <<current_file, music_queue, decs, nsess>>
       /\ op' = Finished(o.kind)
       /\ output_buffer' = AfterHandler(o.kind, ob)
  ELSE /\ deferred_path' = 0
       /\ deferred_pos' = 0
       /\ current_file' = f
       /\ nsess' = nsess + 1
       /\ music_queue' = nsess + 1
       /\ decoder' = nsess + 1
       /\ queues' = [qs EXCEPT ![nsess + 1] = <<>>]
       /\ decs' = [decs EXCEPT ![nsess + 1] = NewDecoder(f, p)]
       /\ UNCHANGED <<is_playing, paused>>
       /\ op' = [o EXCEPT !.pc = "sp_wait", !.pos = p, !.sid = nsess + 1]
       /\ output_buffer' = ob

\* MusicDecoder.start_decode returning: the reader task exists from here on.
\* A decoder stopped while it was starting reads nothing.
DecoderStarted(d, s) ==
  IF d[s].st = "new" THEN [d EXCEPT ![s].st = "run", ![s].t0 = now] ELSE d

\* ... or returning False (no file, no ffmpeg)
DecoderFailed(d, s) ==
  IF d[s].st = "new" THEN [d EXCEPT ![s] = DeadDecoder] ELSE d

\* ... _start_playback after start_decode: failure returns False, success
\* creates the playback task and marks the player playing
StartPlaybackFinish ==
  /\ op.pc = "sp_wait"
  /\ \E ok \in BOOLEAN :
       IF ok
       THEN /\ decs' = DecoderStarted(decs, op.sid)
            /\ loops' = [loops EXCEPT ![op.sid] = NewLoop]
            /\ playback_task' = op.sid
            /\ is_playing' = TRUE
            /\ paused' = FALSE
            /\ current_position' = op.pos
            /\ start_play_time' = now - op.pos
            /\ op' = [op EXCEPT !.pc = "ret"]
            /\ UNCHANGED output_buffer
       ELSE /\ decs' = DecoderFailed(decs, op.sid)
            /\ op' = Finished(op.kind)
            /\ output_buffer' = AfterHandler(op.kind, output_buffer)
            /\ UNCHANGED <<loops, playback_task, is_playing, paused,
                           current_position, start_play_time>>
  /\ UNCHANGED <<pause_source, total_duration, playerFile, decoder,
                 music_queue, user_paused, ncmds, speaking, now, queues,
                 nsess, written, unitVars>>

\* the handler's last await (the UI update) ends and it returns success
Return ==
  /\ op.pc = "ret"
  /\ op' = Finished(op.kind)
  /\ output_buffer' = AfterHandler(op.kind, output_buffer)
  /\ UNCHANGED <<playerVars, user_paused, ncmds, speaking, now, decs, loops,
                 queues, nsess, written, unitVars>>

\* ------------------------------------------------------- play (local file)
\* MusicPlayer.play_local_song_by_id: metadata, then _start_playback(file)
PlayLocal(f) ==
  /\ CanStart
  /\ ncmds' = ncmds + 1
  /\ user_paused' = FALSE
  /\ total_duration' = Duration(f)
  /\ StartPlaybackEnter(Begin("play_local"), f, 0, speaking, queues,
                        output_buffer, decoder)
  /\ UNCHANGED <<pause_source, current_position, start_play_time,
                 playback_task, speaking, now, loops, written, unitVars>>

\* ------------------------------------------------------------------ pause
\* pause with the source of the first pause kept (first writer wins)
PauseEnterKeepSource(o, src) ==
  IF ~is_playing \/ paused
  THEN /\ op' = Finished(o.kind)
       /\ UNCHANGED <<paused, pause_source, current_position, decs>>
  ELSE LET pos == IF start_play_time > 0 THEN now - start_play_time
                  ELSE current_position
       IN /\ paused' = TRUE
          /\ pause_source' = src
          /\ current_position' = pos
          /\ decs' = DecoderStop(decs, decoder)
          /\ op' = [o EXCEPT !.pc = "pause_wait", !.pos = pos]

\* MusicPlayer.pause up to its await of decoder.stop()
PauseEnter(o, src) ==
  IF ~is_playing
  THEN /\ op' = Finished(o.kind)
       /\ UNCHANGED <<paused, pause_source, current_position, decs>>
  ELSE IF paused
  THEN /\ pause_source' = src
       /\ op' = Finished(o.kind)
       /\ UNCHANGED <<paused, current_position, decs>>
  ELSE LET pos == IF start_play_time > 0 THEN now - start_play_time
                  ELSE current_position
       IN /\ paused' = TRUE
          /\ pause_source' = src
          /\ current_position' = pos
          /\ decs' = DecoderStop(decs, decoder)
          /\ op' = [o EXCEPT !.pc = "pause_wait", !.pos = pos]

\* the music_player.pause tool
Pause ==
  /\ CanHandle
  /\ ncmds' = ncmds + 1
  /\ user_paused' = TRUE
  /\ PauseEnter(Begin("pause"), "manual")
  /\ UNCHANGED <<is_playing, start_play_time, total_duration, playerFile,
                 playerRefs, speaking, now, loops, queues, output_buffer,
                 nsess, written, unitVars>>

\* ... pause after decoder.stop() and the 50 ms sleep: the internal queue is
\* emptied, the shared queue is left alone
PauseFinish ==
  /\ op.pc = "pause_wait"
  /\ decoder' = 0
  /\ queues' = Drain(queues, music_queue)
  /\ op' = Finished(op.kind)
  /\ UNCHANGED <<playerFlags, playerPos, playerFile, music_queue,
                 playback_task, user_paused, ncmds, speaking, now, decs,
                 loops, output_buffer, nsess, written, unitVars>>

\* app.is_speaking() once the application has seen a tts message
AppSpeakingAfter(state) == state = "start"

\* AudioPlugin._pause_music_for_tts: pause only music that is really playing
ShouldPauseForTts == is_playing /\ ~paused

\* AudioPlugin.on_incoming_json, {"type": "tts", "state": "start"}
TtsStart ==
  /\ CanHandle
  /\ ncmds' = ncmds + 1
  /\ speaking' = AppSpeakingAfter("start")
  /\ output_buffer' = <<>>
  /\ IF ShouldPauseForTts
     THEN PauseEnter(Begin("tts_start"), "tts")
     ELSE /\ op' = Finished("tts_start")
          /\ UNCHANGED <<paused, pause_source, current_position, decs>>
  /\ UNCHANGED <<is_playing, start_play_time, total_duration, playerFile,
                 playerRefs, user_paused, now, loops, queues, nsess, written, unitVars>>

\* ----------------------------------------------------------------- resume
\* MusicPlayer.resume up to its await of start_decode
ResumeEnter(o) ==
  IF ~is_playing \/ ~paused \/ current_file = 0
  THEN /\ op' = Finished(o.kind)
       /\ output_buffer' = AfterHandler(o.kind, output_buffer)
       /\ UNCHANGED <<music_queue, decoder, queues, decs, nsess>>
  ELSE /\ nsess' = nsess + 1
       /\ music_queue' = nsess + 1
       /\ decoder' = nsess + 1
       /\ queues' = [queues EXCEPT ![nsess + 1] = <<>>]
       /\ decs' = [decs EXCEPT ![nsess + 1] =
                     NewDecoder(current_file, current_position)]
       /\ op' = [o EXCEPT !.pc = "resume_wait", !.sid = nsess + 1,
                          !.pos = current_position]
       /\ UNCHANGED output_buffer

\* the music_player.resume tool
Resume ==
  /\ CanStart
  /\ ncmds' = ncmds + 1
  /\ user_paused' = FALSE
  /\ ResumeEnter(Begin("resume"))
  /\ UNCHANGED <<playerFlags, playerPos, playerFile, playback_task,
                 speaking, now, loops, written, unitVars>>

\* ... resume's last part: the new playback task, the flags, the time base
ResumeRestore(ls) ==
  /\ loops' = [ls EXCEPT ![op.sid] = NewLoop]
  /\ playback_task' = op.sid
  /\ paused' = FALSE
  /\ pause_source' = "none"
  /\ start_play_time' = now - current_position
  /\ op' = [op EXCEPT !.pc = "ret"]

\* ... resume after start_decode: failure returns an error, success cancels
\* the old playback task and waits for it when there is one
ResumeStart ==
  /\ op.pc = "resume_wait"
  /\ \E ok \in BOOLEAN :
       IF ~ok
       THEN /\ decs' = DecoderFailed(decs, op.sid)
            /\ op' = Finished(op.kind)
            /\ output_buffer' = AfterHandler(op.kind, output_buffer)
            /\ UNCHANGED <<loops, playback_task, paused, pause_source,
                           start_play_time>>
       ELSE /\ decs' = DecoderStarted(decs, op.sid)
            /\ UNCHANGED output_buffer
            /\ IF CancelLoop(loops, playback_task) # loops
               THEN /\ loops' = CancelLoop(loops, playback_task)
                    /\ op' = [op EXCEPT !.pc = "resume_cancel"]
                    /\ UNCHANGED <<playback_task, paused, pause_source,
                                   start_play_time>>
               ELSE ResumeRestore(loops)
  /\ UNCHANGED <<is_playing, current_position, total_duration, playerFile,
                 decoder, music_queue, user_paused, ncmds, speaking, now,
                 queues, nsess, written, unitVars>>

\* ... resume once the cancelled playback task has ended
ResumeFinish ==
  /\ op.pc = "resume_cancel"
  /\ ResumeRestore(loops)
  /\ UNCHANGED <<is_playing, current_position, total_duration, playerFile,
                 decoder, music_queue, user_paused, ncmds, speaking, now,
                 decs, queues, output_buffer, nsess, written, unitVars>>

\* -------------------------------------------------------------- tts stop
\* AudioPlugin._resume_music_after_tts: is a deferred start recorded?
HasDeferredStart == deferred_path # 0

\* the source test with the two tags confused
AutoResumeManualPause == pause_source = "manual"

\* ... is the pause one that speech caused?
ShouldAutoResume == pause_source = "tts"

\* AudioPlugin.on_incoming_json, {"type": "tts", "state": "stop"}:
\* _resume_music_after_tts, then clear_audio_queue
TtsStop ==
  /\ CanStart
  /\ ncmds' = ncmds + 1
  /\ speaking' = AppSpeakingAfter("stop")
  /\ IF HasDeferredStart
     THEN StartPlaybackEnter(Begin("tts_stop"), deferred_path, deferred_pos,
                             AppSpeakingAfter("stop"), queues, output_buffer,
                             decoder)
     ELSE IF is_playing /\ paused /\ ShouldAutoResume
     THEN /\ ResumeEnter(Begin("tts_stop"))
          /\ UNCHANGED <<is_playing, paused, playerFile>>
     ELSE /\ op' = Finished("tts_stop")
          /\ output_buffer' = <<>>
          /\ UNCHANGED <<is_playing, paused, playerFile, music_queue,
                         decoder, queues, decs, nsess>>
  /\ UNCHANGED <<pause_source, playerPos, playback_task, user_paused, now,
                 loops, written, unitVars>>

\* ------------------------------------------------------------------- stop
\* the fields stop() resets
StopPauseSource == "none"
StopPosition == 0

\* MusicPlayer.stop, the reset after the awaits: the internal queue is
\* emptied and the state cleared
StopReset(o) ==
  /\ queues' = Drain(queues, music_queue)
  /\ is_playing' = FALSE
  /\ paused' = FALSE
  /\ pause_source' = StopPauseSource
  /\ current_position' = StopPosition
  /\ op' = [o EXCEPT !.pc = "ret"]
  /\ UNCHANGED <<start_play_time, total_duration, playerFile, music_queue,
                 playback_task>>

\* ... from "cancel the playback task" on: a live task is cancelled and
\* waited for, otherwise the reset follows at once
StopCancel(o) ==
  /\ decoder' = 0
  /\ IF CancelLoop(loops, playback_task) # loops
     THEN /\ loops' = CancelLoop(loops, playback_task)
          /\ op' = [o EXCEPT !.pc = "stop_cancel"]
          /\ UNCHANGED <<queues, playerFlags, playerPos, playerFile,
                         music_queue, playback_task>>
     ELSE /\ UNCHANGED loops
          /\ StopReset(o)

\* the music_player.stop tool, up to its first await.  _pending_play is read
\* only when is_playing is false and is never true: nothing changes then.
Stop ==
  /\ CanHandle
  /\ ncmds' = ncmds + 1
  /\ user_paused' = FALSE
  /\ IF ~is_playing
     THEN /\ op' = Finished("stop")
          /\ UNCHANGED <<playerVars, decs, loops, queues>>
     ELSE IF decoder # 0
     THEN /\ decs' = DecoderStop(decs, decoder)
          /\ op' = [Begin("stop") EXCEPT !.pc = "stop_wait"]
          /\ UNCHANGED <<playerVars, loops, queues>>
     ELSE /\ StopCancel(Begin("stop"))
          /\ UNCHANGED decs
  /\ UNCHANGED <<speaking, now, output_buffer, nsess, written, unitVars>>

\* ... stop once decoder.stop() has returned
StopDecoderStopped ==
  /\ op.pc = "stop_wait"
  /\ StopCancel(op)
  /\ UNCHANGED <<user_paused, ncmds, speaking, now, decs, output_buffer,
                 nsess, written, unitVars>>

\* ... stop once the cancelled playback task has ended
StopFinish ==
  /\ op.pc = "stop_cancel"
  /\ StopReset(op)
  /\ UNCHANGED <<decoder, loops, user_paused, ncmds, speaking, now, decs,
                 output_buffer, nsess, written, unitVars>>

\* ------------------------------------------------------------------- seek
\* the range limit with the upper test exclusive
SeekClampAboveOnly(position, duration) ==
  IF position < 0 THEN 0
  ELSE IF position > duration THEN Max(0, duration - 1)
  ELSE position

\* MusicPlayer.seek, the range limit
SeekClamp(position, duration) ==
  IF position < 0 THEN 0
  ELSE IF position >= duration THEN Max(0, duration - 1)
  ELSE position

\* MusicPlayer.seek, its two refusals
SeekRefused == ~is_playing \/ current_file = 0

\* the music_player.seek tool, up to its await of decoder.stop()
Seek(position) ==
  /\ CanStart
  /\ ncmds' = ncmds + 1
  /\ user_paused' = FALSE
  /\ IF SeekRefused
     THEN /\ op' = Finished("seek")
          /\ UNCHANGED decs
     ELSE /\ decs' = DecoderStop(decs, decoder)
          /\ op' = [Begin("seek") EXCEPT
                      !.pc = "seek_wait",
                      !.pos = SeekClamp(position, total_duration)]
  /\ UNCHANGED <<playerVars, speaking, now, loops, queues, output_buffer,
                 nsess, written, unitVars>>

\* ... seek after decoder.stop() and the 50 ms sleep: both queues are
\* emptied and _start_playback runs at the new offset
SeekRestart ==
  /\ op.pc = "seek_wait"
  /\ StartPlaybackEnter(op, current_file, op.pos, speaking,
                        Drain(queues, music_queue), <<>>, 0)
  /\ UNCHANGED <<pause_source, playerPos, playback_task, user_paused, ncmds,
                 speaking, now, loops, written, unitVars>>

\* ---------------------------------------------------------------- queries
\* MusicPlayer.get_position: the value returned
PositionValue ==
  IF ~is_playing \/ paused THEN current_position
  ELSE Min(total_duration, now - start_play_time)

\* ... and whether it finds the track finished
PositionFinishes ==
  /\ is_playing /\ ~paused
  /\ PositionValue >= total_duration /\ total_duration > 0

\* MusicPlayer.get_position, its effect on the player
GetPosition ==
  /\ op.pc = ""
  /\ PositionFinishes
  /\ HandlePlaybackFinished
  /\ UNCHANGED <<pause_source, start_play_time, total_duration, playerFile,
                 music_queue, playback_task, handlerVars, speaking, now,
                 loops, queues, output_buffer, nsess, written, unitVars>>

\* MusicPlayer.get_status: the playing state it reports
PlayingState(playing, isPaused, source) ==
  IF ~playing THEN "not_playing"
  ELSE IF isPaused /\ source = "manual" THEN "paused"
  ELSE "playing"

\* ------------------------------------------------------------ the machine
Next ==
  \/ \E f \in Files : PlayLocal(f)
  \/ StartPlaybackFinish
  \/ Return
  \/ Pause
  \/ PauseFinish
  \/ TtsStart
  \/ TtsStop
  \/ Resume
  \/ ResumeStart
  \/ ResumeFinish
  \/ Stop
  \/ StopDecoderStopped
  \/ StopFinish
  \/ \E p \in SeekRequests : Seek(p)
  \/ SeekRestart
  \/ GetPosition
  \/ \E s \in Sessions : DecoderEmit(s)
  \/ \E s \in Sessions : DecoderDrop(s)
  \/ \E s \in Sessions : DecoderEof(s)
  \/ \E l \in Sessions : LoopTop(l)
  \/ \E l \in Sessions : LoopGet(l)
  \/ \E l \in Sessions : LoopGetTimeout(l)
  \/ \E l \in Sessions : LoopWrite(l)
  \/ \E l \in Sessions : LoopWriteTimeout(l)
  \/ Render
  \/ Tick

Spec == Init /\ [][Next]_vars

\* ------------------------------------------------ the seek range limit alone
\* every requested position against every duration
InitClamp ==
  /\ InitPlayer
  /\ clamp \in [pos : (0 - MaxPos)..MaxPos, dur : 0..MaxDur, out : {0},
                done : {FALSE}]
  /\ md = NoMd /\ codec = NoCodec
  /\ wake = NoWake /\ plugin = NoPlugin /\ mix = NoMix

\* MusicPlayer.seek, lines 674-678, applied to the request
ApplyClamp ==
  /\ ~clamp.done
  /\ clamp' = [clamp EXCEPT !.out = SeekClamp(clamp.pos, clamp.dur),
                            !.done = TRUE]
  /\ UNCHANGED <<playerVars, handlerVars, speaking, now, decs, loops, queues,
                 output_buffer, nsess, written, md, codec, wake, plugin, mix>>

SpecClamp == InitClamp /\ [][ApplyClamp]_vars

\* ================================================================ claims
\* C1: a play request deferred by speech stays recorded, file and offset,
\* until a newer play request replaces it or a tts stop starts it; no other
\* step discards or rewrites it.
C1_DeferredRequestKept ==
  [][(deferred_path # 0
        /\ <<deferred_path, deferred_pos>>' # <<deferred_path, deferred_pos>>)
       => (ncmds' # ncmds /\ op'.kind \in {"play_local", "tts_stop"})]_vars

C3_ManualPauseNotAutoResumed ==
  [][(ncmds' # ncmds /\ op'.kind = "tts_stop" /\ user_paused
        /\ is_playing /\ paused)
       => (paused' /\ decs' = decs /\ op'.pc = "")]_vars

\* C4: between commands, a player paused by speech or waiting for speech to
\* end, whose user has not asked for a pause, is never reported "paused".
C4_PausedOnlyForUserPause ==
  (op.pc = "" /\ ~user_paused
     /\ PlaybackState \in {"PausedForSpeech", "DeferredPending"})
    => PlayingState(is_playing, paused, pause_source) # "paused"

\* C5: once seek has restarted playback, every frame in the shared queue and
\* every frame a playback task is about to write there was decoded by the
\* decoder that seek started.
C5_NoPreSeekFrameAfterSeek ==
  (op.kind = "seek" /\ op.pc = "ret")
    => /\ \A i \in 1..Len(output_buffer) : output_buffer[i][1] = op.sid
       /\ \A l \in Sessions : loops[l].pc = "write" => loops[l].f[1] = op.sid

\* C6: when stop() has done its work the player is not playing, not paused,
\* without pause source, at position 0, holds no decoder, no playback task
\* is alive and the internal queue is empty.
C6_StopResetsEverything ==
  (op.kind = "stop" /\ op.pc = "ret")
    => /\ ~is_playing /\ ~paused /\ pause_source = "none"
       /\ current_position = 0 /\ decoder = 0
       /\ \A l \in Sessions : ~LoopAlive(loops[l])
       /\ (music_queue # 0 => queues[music_queue] = <<>>)

\* C7: the frames a speech pause throws away from the internal queue are
\* decoded again after resume: each lies at or after the recorded position.
C7_SpeechPauseLosesNoFrame ==
  [][(op.kind = "tts_start" /\ op.pc = "pause_wait" /\ op'.pc # "pause_wait")
       => \A i \in 1..Len(queues[music_queue]) :
            \/ queues[music_queue][i] = EOF
            \/ queues[music_queue][i] >= current_position]_vars

\* C8: when resume() has restarted playback and no time has passed since,
\* the decoder runs from the position pause recorded and get_position()
\* is within one frame of that position.
C8_ResumeRestoresPosition ==
  (op.kind = "resume" /\ op.pc = "ret" /\ is_playing /\ ~paused
     /\ now = start_play_time + op.pos)
    => /\ decs[op.sid].st = "run" => decs[op.sid].pos = op.pos
       /\ PositionValue - op.pos <= 1
       /\ op.pos - PositionValue <= 1

\* C9: seek called on a player that is not Playing returns at once, changes
\* no field of the player and stops or starts no decoder.
C9_SeekOnlyWhilePlaying ==
  [][(ncmds' # ncmds /\ op'.kind = "seek" /\ PlaybackState # "Playing")
       => (op'.pc = "" /\ UNCHANGED <<playerVars, decs>>)]_vars

\* C10: the offset seek restarts at is never negative, lies below the
\* duration of a track that has one, and is 0 for a track of duration 0.
C10_ClampRange ==
  clamp.done
    => /\ 0 <= clamp.out
       /\ clamp.dur > 0 => clamp.out < clamp.dur
       /\ clamp.dur = 0 => clamp.out = 0

\* C10 as stated: 0 <= p < total_duration for every position and duration
C10_ClampBelowDuration ==
  clamp.done => (0 <= clamp.out /\ clamp.out < clamp.dur)

\* C10, its case: a request at or past the end of a track was limited
C10_ClampedAtEnd ==
  /\ clamp.done /\ clamp.dur > 0 /\ clamp.pos >= clamp.dur
  /\ clamp.out = clamp.dur - 1

\* C11: while the player is paused by a pause(), a step that is no part of a resume, seek,
\* stop or play (a background task, the clock, a position query, or a further
\* pause) leaves the player paused and get_position() at the value the pause
\* recorded.
C11_PositionFrozenWhilePaused ==
  [][(PlaybackState \in {"PausedManual", "PausedForSpeech"} /\ op.pc = ""
        /\ (ncmds' = ncmds \/ op'.kind \in {"pause", "tts_start"}))
       => (PositionValue' = PositionValue /\ is_playing' /\ paused')]_vars

\* C12: whenever a reader task enqueues its n-th frame, at least n - 1 frame
\* periods of wall-clock time have passed since the task started.
C12_FramesNotFasterThanRealTime ==
  [][\A s \in Sessions :
       (decs[s].st = "run" /\ decs'[s].st = "run"
          /\ decs'[s].count = decs[s].count + 1
          /\ Len(queues'[s]) = Len(queues[s]) + 1)
         => now - decs[s].t0 >= decs'[s].count - 1]_vars

\* C12, its case: the second frame of a session sits in the queue
C12_SecondFrameEnqueued ==
  \E s \in Sessions :
    /\ decs[s].st = "run" /\ decs[s].pos = 0 /\ decs[s].count = 2
    /\ queues[s] = <<1>>

\* ------------------------------------------------ the machine, kept running
\* the event loop runs every task that can run and every await returns: the
\* reader tasks, the playback tasks, the render callback, the clock and the
\* continuation of a handler that has started.  Commands and speech events
\* arrive or not.
Fairness ==
  /\ \A s \in Sessions :
       /\ WF_vars(DecoderEmit(s)) /\ WF_vars(DecoderDrop(s))
       /\ WF_vars(DecoderEof(s))
       /\ WF_vars(LoopTop(s)) /\ WF_vars(LoopGet(s))
       /\ WF_vars(LoopGetTimeout(s))
       /\ WF_vars(LoopWrite(s)) /\ WF_vars(LoopWriteTimeout(s))
  /\ WF_vars(Render) /\ WF_vars(Tick)
  /\ WF_vars(StartPlaybackFinish) /\ WF_vars(Return) /\ WF_vars(PauseFinish)
  /\ WF_vars(ResumeStart) /\ WF_vars(ResumeFinish)
  /\ WF_vars(StopDecoderStopped) /\ WF_vars(StopFinish)
  /\ WF_vars(SeekRestart)

SpecLive == Init /\ [][Next]_vars /\ Fairness

\* the subprocess of session s has no more output
AtEndOfOutput(s) == decs[s].st = "run" /\ decs[s].pos + decs[s].count >= TrackLen

\* C13: a reader task whose subprocess has reached the end of its output
\* enqueues the sentinel and ends, unless the decoder is stopped first; either
\* way the task does not stay alive for ever.
C13_SentinelAtEndOfOutput ==
  \A s \in Sessions : AtEndOfOutput(s) ~> (decs[s].st = "done")

\* ================================================ one MusicDecoder, alone
\* start_decode, the reader task _read_pcm_stream, the ffmpeg subprocess, a
\* consumer of the output queue, and stop() called at any moment after
\* start_decode was called.
MdFrames == 3         \* frames the subprocess can output
MdQueueCap == 2       \* capacity of the output queue

mdOthers == <<playerVars, handlerVars, speaking, now, decs, loops, queues,
              output_buffer, nsess, written, clamp, codec, wake, plugin, mix>>

InitMd == InitPlayer /\ UnitsIdle

\* MusicDecoder.start_decode up to its first await: a missing file fails
MdStartDecode ==
  /\ md.start = "idle"
  /\ \E exists \in BOOLEAN :
       md' = IF exists
             THEN [md EXCEPT !.stopped = FALSE, !.start = "checking"]
             ELSE [md EXCEPT !.start = "failed"]
  /\ UNCHANGED mdOthers

\* ... the "ffmpeg -version" probe ends: FileNotFoundError fails
MdChecked ==
  /\ md.start = "checking"
  /\ \E found \in BOOLEAN :
       md' = [md EXCEPT !.start = IF found THEN "spawning" ELSE "failed"]
  /\ UNCHANGED mdOthers

\* ... the subprocess is created and the reader task with it
MdSpawned ==
  /\ md.start = "spawning"
  /\ md' = [md EXCEPT !.start = "started", !.process = "running",
                      !.decode_task = "read"]
  /\ UNCHANGED mdOthers

\* the subprocess ends by itself: end of the file, or death mid-stream
MdProcessExit ==
  /\ md.process = "running"
  /\ md.stop # "wait"
  /\ md' = [md EXCEPT !.process = "exited"]
  /\ UNCHANGED mdOthers

\* _read_pcm_stream: the loop test and one read of the pipe
MdRead ==
  /\ md.decode_task = "read"
  /\ md' = IF md.stopped
           THEN [md EXCEPT !.decode_task = "done"]
           ELSE IF md.process = "running" /\ md.read < MdFrames
           THEN [md EXCEPT !.read = @ + 1, !.decode_task = "put"]
           ELSE [md EXCEPT !.decode_task = "sentinel"]
  /\ UNCHANGED mdOthers

\* ... the frame is enqueued
MdPut ==
  /\ md.decode_task = "put"
  /\ Len(md.output_queue) < MdQueueCap
  /\ md' = [md EXCEPT !.output_queue = Append(@, md.read - 1),
                      !.decode_task = "read"]
  /\ UNCHANGED mdOthers

\* ... or the put times out after 5 s and the frame is skipped
MdPutTimeout ==
  /\ md.decode_task = "put"
  /\ Len(md.output_queue) >= MdQueueCap
  /\ md' = [md EXCEPT !.decode_task = "read"]
  /\ UNCHANGED mdOthers

\* ... after the end of output: the sentinel, put without timeout
MdSentinel ==
  /\ md.decode_task = "sentinel"
  /\ Len(md.output_queue) < MdQueueCap
  /\ md' = [md EXCEPT !.output_queue = Append(@, EOF),
                      !.decode_task = "done"]
  /\ UNCHANGED mdOthers

\* whoever reads the output queue takes an item
MdConsume ==
  /\ md.output_queue # <<>>
  /\ md' = [md EXCEPT !.output_queue = Tail(@)]
  /\ UNCHANGED mdOthers

\* does stop() find a reader task to cancel?
MdTaskAlive(m) == m.decode_task \notin {"none", "done"}

\* MusicDecoder.stop up to its wait for the subprocess: the no-op on a
\* stopped decoder, the flag, the reader task cancelled and awaited,
\* terminate() (which raises on a subprocess that has exited; the exception
\* is swallowed).
MdStop ==
  /\ md.start # "idle"
  /\ md.stop = "idle"
  /\ md' = IF md.stopped
           THEN [md EXCEPT !.returned = TRUE]
           ELSE LET m == [md EXCEPT
                            !.stopped = TRUE,
                            !.decode_task =
                               IF MdTaskAlive(md) THEN "done" ELSE @]
                IN IF m.process = "running"
                   THEN [m EXCEPT !.terminated = TRUE, !.stop = "wait"]
                   ELSE [m EXCEPT !.returned = TRUE]
  /\ UNCHANGED mdOthers

\* ... the subprocess exits within 2 s of terminate()
MdStopWait ==
  /\ md.stop = "wait"
  /\ md' = [md EXCEPT !.process = "exited", !.stop = "idle",
                      !.returned = TRUE]
  /\ UNCHANGED mdOthers

\* ... or it does not: kill(), and the wait for its exit
MdStopWaitTimeout ==
  /\ md.stop = "wait"
  /\ md' = [md EXCEPT !.killed = TRUE, !.process = "exited",
                      !.stop = "idle", !.returned = TRUE]
  /\ UNCHANGED mdOthers

NextMd ==
  \/ MdStartDecode
  \/ MdChecked
  \/ MdSpawned
  \/ MdProcessExit
  \/ MdRead
  \/ MdPut
  \/ MdPutTimeout
  \/ MdSentinel
  \/ MdConsume
  \/ MdStop
  \/ MdStopWait
  \/ MdStopWaitTimeout

SpecMd == InitMd /\ [][NextMd]_vars

\* C14: once a stop() has returned, the reader task is not alive and the
\* subprocess is not running.
C14_StopReleasesTaskAndProcess ==
  md.returned => (~MdTaskAlive(md) /\ md.process # "running")

\* ==================================== the queues of the AudioCodec, alone
\* AudioCodec._output_buffer with its two writers (write_audio for voice,
\* write_pcm_direct for music) and the render callback, and the audio queue
\* of a WakeWordDetector with on_audio_data and its detection loop.
QueueCap == 2         \* stands for maxsize=500 (playback) and 100 (wake word)
MaxWrites == 3        \* items offered to the queues in a run
FrameLen == 2         \* stands for OUTPUT_FRAME_SIZE * CHANNELS samples
MaxPcmLen == 3        \* longest array handed to write_pcm_direct
Samples == {1, 2}     \* sample values of the arrays handed in
DevFrames == 2        \* samples a render callback has to deliver (frames)
MaxResampled == 2     \* most samples resample_chunk returns for one item

PcmInputs == UNION {[1..n -> Samples] : n \in 0..MaxPcmLen}

\* the array the Opus decoder returns for a well-formed packet
VoiceFrame == [i \in 1..FrameLen |-> 1]

codecOthers == <<playerVars, handlerVars, speaking, now, decs, loops, queues,
                 output_buffer, nsess, written, clamp, md, wake, plugin, mix>>

InitCodec == InitPlayer /\ UnitsIdle

\* safe_queue_put keeping the old items of a full queue
SafeQueuePutKeepOldest(queue, item, replace_oldest, cap) ==
  IF Len(queue) < cap THEN Append(queue, item) ELSE queue

\* audio_utils.safe_queue_put: the queue it leaves
SafeQueuePut(queue, item, replace_oldest, cap) ==
  IF Len(queue) < cap THEN Append(queue, item)
  ELSE IF replace_oldest
  THEN IF queue # <<>> THEN Append(Tail(queue), item) ELSE Append(queue, item)
  ELSE queue

\* ... and the value it returns
SafeQueuePutOk(queue, replace_oldest, cap) == Len(queue) < cap \/ replace_oldest

\* WakeWordDetector.on_audio_data: put_nowait, and on QueueFull get_nowait
\* then put_nowait
WakePut(queue, item, cap) ==
  IF Len(queue) < cap THEN Append(queue, item)
  ELSE IF queue # <<>> THEN Append(Tail(queue), item)
  ELSE Append(queue, item)

\* write_pcm_direct keeping the end of an array that is too long
NormalizeLengthKeepTail(pcm_data) ==
  IF Len(pcm_data) < FrameLen
  THEN [i \in 1..FrameLen |-> IF i <= Len(pcm_data) THEN pcm_data[i] ELSE 0]
  ELSE SubSeq(pcm_data, Len(pcm_data) - FrameLen + 1, Len(pcm_data))

\* write_pcm_direct: the array padded with silence or truncated
NormalizeLength(pcm_data) ==
  IF Len(pcm_data) = FrameLen THEN pcm_data
  ELSE IF Len(pcm_data) < FrameLen
  THEN [i \in 1..FrameLen |-> IF i <= Len(pcm_data) THEN pcm_data[i] ELSE 0]
  ELSE SubSeq(pcm_data, 1, FrameLen)

\* write_pcm_direct asking safe_queue_put to replace the oldest item
PcmReplaceOldestOn == TRUE

\* write_pcm_direct: the replace_oldest argument it passes
PcmReplaceOldest == FALSE

\* AudioCodec.write_audio: a packet that decodes to a frame of the expected
\* length is enqueued, dropping the oldest item of a full queue; any other
\* packet is dropped
WriteAudio ==
  /\ codec.nwrites < MaxWrites
  /\ \E ok \in BOOLEAN :
       LET item == [id |-> codec.nwrites + 1, src |-> "voice",
                    raw |-> VoiceFrame, pcm |-> VoiceFrame]
       IN codec' =
            IF ok
            THEN [codec EXCEPT
                    !.nwrites = @ + 1, !.last_write = "voice",
                    !.output_buffer =
                       SafeQueuePut(@, item, TRUE, QueueCap),
                    !.enqueued =
                       IF SafeQueuePutOk(codec.output_buffer, TRUE, QueueCap)
                       THEN Append(@, item.id) ELSE @]
            ELSE [codec EXCEPT !.nwrites = @ + 1, !.last_write = "voice"]
  /\ UNCHANGED codecOthers

\* AudioCodec.write_pcm_direct up to its await: the array is normalised and
\* offered to the queue; on a full queue the call waits in put()
WritePcmDirect(pcm_data) ==
  /\ codec.nwrites < MaxWrites
  /\ codec.pcm_wait = NoItem
  /\ LET item == [id |-> codec.nwrites + 1, src |-> "pcm",
                  raw |-> pcm_data, pcm |-> NormalizeLength(pcm_data)]
         ok == SafeQueuePutOk(codec.output_buffer, PcmReplaceOldest, QueueCap)
     IN codec' =
          [codec EXCEPT
             !.nwrites = @ + 1, !.last_write = "pcm",
             !.output_buffer =
                SafeQueuePut(@, item, PcmReplaceOldest, QueueCap),
             !.enqueued = IF ok THEN Append(@, item.id) ELSE @,
             !.pcm_wait = IF ok THEN NoItem ELSE item,
             !.pcm_result = IF ok THEN "queued" ELSE "none"]
  /\ UNCHANGED codecOthers

\* ... space appears within 2 s and the waiting put() completes
PcmPutCompletes ==
  /\ codec.pcm_wait # NoItem
  /\ Len(codec.output_buffer) < QueueCap
  /\ codec' = [codec EXCEPT
                 !.output_buffer = Append(@, codec.pcm_wait),
                 !.enqueued = Append(@, codec.pcm_wait.id),
                 !.pcm_wait = NoItem, !.pcm_result = "queued"]
  /\ UNCHANGED codecOthers

\* ... or wait_for raises TimeoutError, which write_pcm_direct catches: the
\* frame is dropped
PcmPutTimeout ==
  /\ codec.pcm_wait # NoItem
  /\ codec' = [codec EXCEPT !.pcm_wait = NoItem, !.pcm_result = "dropped"]
  /\ UNCHANGED codecOthers

\* AudioCodec._output_callback_direct: the render callback takes one item
\* (get_nowait) and plays it, or writes silence on QueueEmpty
RenderPop ==
  /\ codec.output_resampler \in {"unset", "none"}
  /\ codec' = IF codec.output_buffer # <<>>
              THEN [codec EXCEPT
                      !.output_buffer = Tail(@), !.out_popped = TRUE,
                      !.output_resampler = "none",
                      !.cb_popped = 1, !.cb_out = "audio"]
              ELSE [codec EXCEPT
                      !.output_resampler = "none",
                      !.cb_popped = 0, !.cb_out = "silence"]
  /\ UNCHANGED codecOthers

\* AudioCodec._output_callback_with_resample, its loop: while fewer than
\* frames samples are buffered an item is taken and what resample_chunk
\* returns for it is buffered; QueueEmpty ends the loop.  The outcomes
\* <<samples buffered, queue left, items taken>>.
RECURSIVE ResampleFill(_, _, _)
ResampleFill(buffered, queue, taken) ==
  IF buffered >= DevFrames \/ queue = <<>>
  THEN {<<buffered, queue, taken>>}
  ELSE UNION {ResampleFill(buffered + r, Tail(queue), taken + 1) :
                r \in 0..MaxResampled}

\* ... the callback: the loop, then frames samples are played when that
\* many are buffered, else silence
OutputCallbackWithResample ==
  /\ codec.output_resampler \in {"unset", "held"}
  /\ \E o \in ResampleFill(codec.resample_output_buffer,
                            codec.output_buffer, 0) :
       codec' = [codec EXCEPT
                   !.output_resampler = "held",
                   !.output_buffer = o[2],
                   !.out_popped = @ \/ o[3] > 0,
                   !.resample_output_buffer =
                      IF o[1] >= DevFrames THEN o[1] - DevFrames ELSE o[1],
                   !.cb_popped = o[3],
                   !.cb_out = IF o[1] >= DevFrames THEN "audio"
                              ELSE "silence"]
  /\ UNCHANGED codecOthers

\* WakeWordDetector.on_audio_data: nothing while the detector is disabled,
\* not running or paused, else the frame is enqueued, dropping the oldest
OnAudioData ==
  /\ codec.nwrites < MaxWrites
  /\ \E listening \in BOOLEAN :
       codec' =
         IF listening
         THEN [codec EXCEPT
                 !.nwrites = @ + 1, !.last_write = "wake",
                 !.wake_queue = WakePut(@, codec.nwrites + 1, QueueCap),
                 !.wake_enqueued = Append(@, codec.nwrites + 1)]
         ELSE [codec EXCEPT !.nwrites = @ + 1, !.last_write = "wake"]
  /\ UNCHANGED codecOthers

\* the detection loop takes one frame
WakeGet ==
  /\ codec.wake_queue # <<>>
  /\ codec' = [codec EXCEPT !.wake_queue = Tail(@), !.wake_popped = TRUE]
  /\ UNCHANGED codecOthers

NextQueue ==
  \/ WriteAudio
  \/ \E p \in PcmInputs : WritePcmDirect(p)
  \/ PcmPutCompletes
  \/ PcmPutTimeout
  \/ RenderPop
  \/ OutputCallbackWithResample
  \/ OnAudioData
  \/ WakeGet

SpecQueue == InitCodec /\ [][NextQueue]_vars

\* the ids of the items of a queue
Ids(queue) == [i \in 1..Len(queue) |-> queue[i].id]

\* s is the end of t
IsSuffix(s, t) ==
  /\ Len(s) <= Len(t)
  /\ \A i \in 1..Len(s) : s[i] = t[Len(t) - Len(s) + i]

\* C15: each queue holds at most its capacity, its items are the most
\* recently enqueued ones in their order, and as long as no consumer has
\* taken any it holds as many of them as its capacity allows.
C15_DropOldestKeepsNewest ==
  /\ Len(codec.output_buffer) <= QueueCap
  /\ IsSuffix(Ids(codec.output_buffer), codec.enqueued)
  /\ ~codec.out_popped
       => Len(codec.output_buffer) = Min(QueueCap, Len(codec.enqueued))
  /\ Len(codec.wake_queue) <= QueueCap
  /\ IsSuffix(codec.wake_queue, codec.wake_enqueued)
  /\ ~codec.wake_popped
       => Len(codec.wake_queue) = Min(QueueCap, Len(codec.wake_enqueued))

\* C15, its case: write_audio has dropped the oldest item of the full
\* playback queue
C15_OldestDropped ==
  /\ ~codec.out_popped
  /\ Len(codec.enqueued) = QueueCap + 1
  /\ Ids(codec.output_buffer) = SubSeq(codec.enqueued, 2, QueueCap + 1)
  /\ codec.last_write = "voice"

\* C16: write_pcm_direct on a full playback queue removes and reorders
\* nothing: the call waits, and when the wait times out the frame is dropped,
\* the call returns with the queue as it was.
C16_PcmTimeoutDropsOnlyNewFrame ==
  [][/\ (codec'.nwrites # codec.nwrites /\ codec'.last_write = "pcm"
           /\ Len(codec.output_buffer) = QueueCap)
          => /\ codec'.output_buffer = codec.output_buffer
             /\ codec'.pcm_wait.id = codec'.nwrites
     /\ (codec.pcm_wait # NoItem /\ codec'.pcm_wait = NoItem
           /\ codec'.enqueued = codec.enqueued)
          => /\ codec'.output_buffer = codec.output_buffer
             /\ codec'.pcm_result = "dropped"]_vars

\* C16, its case: a music frame was dropped after waiting on a full queue
C16_PcmFrameDropped ==
  /\ codec.pcm_result = "dropped" /\ codec.pcm_wait = NoItem
  /\ Len(codec.output_buffer) = QueueCap
  /\ codec.last_write = "pcm"

\* C17: every item write_pcm_direct has put into the playback queue has the
\* frame length; it starts with the samples handed in, as many as fit, and
\* any rest is silence.
C17_PcmFramesNormalized ==
  \A k \in 1..Len(codec.output_buffer) :
    LET item == codec.output_buffer[k]
    IN item.src = "pcm"
         => /\ Len(item.pcm) = FrameLen
            /\ \A i \in 1..FrameLen :
                 item.pcm[i] = IF i <= Len(item.raw) THEN item.raw[i] ELSE 0
            /\ Len(item.raw) = FrameLen => item.pcm = item.raw

\* C17, its case: a padded and a truncated frame are in the queue
C17_PaddedAndTruncated ==
  /\ Len(codec.output_buffer) = 2
  /\ codec.output_buffer[1].src = "pcm" /\ codec.output_buffer[2].src = "pcm"
  /\ Len(codec.output_buffer[1].raw) < FrameLen
  /\ Len(codec.output_buffer[2].raw) > FrameLen
  /\ codec.output_buffer[2].raw[1] # codec.output_buffer[2].raw[MaxPcmLen]

\* ============================= the capture side of the AudioCodec, alone
\* _input_callback runs in the capture thread, one call at a time; its
\* fan-out visits the listener list by index, one listener per step, while
\* add_audio_listener and remove_audio_listener run in the event loop.
\* Samples are numbered in the order the device delivers them.
InputFrameSize == 2   \* stands for AudioConfig.INPUT_FRAME_SIZE
MaxChunk == 3         \* most samples one callback brings (after resampling)
MaxCallbacks == 3     \* capture callbacks in a run
MaxListenerOps == 3   \* add/remove calls in a run

InitCapture ==
  /\ InitPlayer /\ clamp = NoClamp /\ md = NoMd
  /\ wake = NoWake /\ plugin = NoPlugin /\ mix = NoMix
  /\ codec \in {[NoCodec EXCEPT !.has_resampler = r] : r \in BOOLEAN}

\* n new samples, numbered after the `fed` received so far
NewSamples(fed, n) == [i \in 1..n |-> fed + i]

\* no check of the frame size
FrameSizeAny(n) == TRUE

\* _input_callback, step 3: only a frame of the protocol size goes on
FrameSizeOk(n) == n = InputFrameSize

\* the fan-out abandoned when a listener raises
AfterListenerRaiseAbort(i, n) == n + 1

\* _input_callback, step 7: the exception of a listener is caught inside the
\* loop, which goes on with the next listener
AfterListenerRaise(i, n) == i + 1

\* _process_input_resampling: the buffer and the frame it returns (<<>> for
\* None) when the resampler delivers the samples `fresh`
ProcessInputResampling(buffer, fresh) ==
  LET all == buffer \o fresh
  IN IF Len(all) < InputFrameSize
     THEN [buffer |-> all, frame |-> <<>>]
     ELSE [buffer |-> SubSeq(all, InputFrameSize + 1, Len(all)),
           frame |-> SubSeq(all, 1, InputFrameSize)]

\* _input_callback up to the fan-out: downmix, resampling (which may fail),
\* the size check, the encoder and the send callback (which may fail).  n is
\* the number of samples the chunk yields.
InputCallback(n) ==
  /\ ~codec.cb.active
  /\ ~codec.is_closing
  /\ codec.ncallbacks < MaxCallbacks
  /\ \E resampleFails \in BOOLEAN, enc \in {"ok", "fails"} :
       LET fresh == NewSamples(codec.fed, n)
           r == ProcessInputResampling(codec.resample_input_buffer, fresh)
           frame == IF codec.has_resampler THEN r.frame ELSE fresh
           started == [NoCallback EXCEPT
                         !.active = TRUE, !.frame = frame, !.i = 1,
                         !.enc = enc, !.sent = (enc = "ok")]
       IN IF codec.has_resampler /\ resampleFails
          THEN codec' = [codec EXCEPT !.ncallbacks = @ + 1,
                                      !.last_cb = "failed",
                                      !.cb = NoCallback]
          ELSE IF codec.has_resampler /\ r.frame = <<>>
          THEN codec' = [codec EXCEPT !.ncallbacks = @ + 1,
                                      !.fed = @ + n,
                                      !.resample_input_buffer = r.buffer,
                                      !.last_cb = "short",
                                      !.cb = NoCallback]
          ELSE IF ~FrameSizeOk(Len(frame))
          THEN codec' = [codec EXCEPT !.ncallbacks = @ + 1,
                                      !.fed = @ + n,
                                      !.last_cb = "dropped",
                                      !.cb = NoCallback]
          ELSE codec' = [codec EXCEPT
                           !.ncallbacks = @ + 1,
                           !.fed = @ + n,
                           !.resample_input_buffer =
                              IF codec.has_resampler THEN r.buffer ELSE @,
                           !.last_cb = "emitted",
                           !.cb = started]
  /\ UNCHANGED codecOthers

\* ... the fan-out calls the next listener, which may raise
FanOutStep ==
  /\ codec.cb.active
  /\ codec.cb.i <= Len(codec.audio_listeners)
  /\ \E raises \in BOOLEAN :
       LET l == codec.audio_listeners[codec.cb.i]
       IN codec' =
            [codec EXCEPT
               !.cb.got = @ \cup {l},
               !.cb.raised = IF raises THEN @ \cup {l} ELSE @,
               !.cb.i = IF raises
                        THEN AfterListenerRaise(@, Len(codec.audio_listeners))
                        ELSE @ + 1]
  /\ UNCHANGED codecOthers

\* has the fan-out loop run off the end of the list?
FanOutDone(c) == c.cb.active /\ c.cb.i > Len(c.audio_listeners)

\* ... the callback returns
CallbackReturn ==
  /\ FanOutDone(codec)
  /\ codec' = [codec EXCEPT !.cb.active = FALSE]
  /\ UNCHANGED codecOthers

\* the listener list without the first occurrence of l
RemoveFirst(list, l) ==
  IF \E i \in 1..Len(list) : list[i] = l
  THEN LET k == CHOOSE i \in 1..Len(list) :
                  list[i] = l /\ \A j \in 1..(i - 1) : list[j] # l
       IN SubSeq(list, 1, k - 1) \o SubSeq(list, k + 1, Len(list))
  ELSE list

\* add_audio_listener without its membership test
AddListenerAlways(list, l) == Append(list, l)

\* add_audio_listener: the list it leaves
AddListener(list, l) ==
  IF \E i \in 1..Len(list) : list[i] = l THEN list ELSE Append(list, l)

\* AudioCodec.add_audio_listener
AddAudioListener(l) ==
  /\ codec.nops < MaxListenerOps
  /\ codec' = [codec EXCEPT
                 !.audio_listeners = AddListener(@, l),
                 !.last_op[l] = "add",
                 !.last_call = <<"add", l>>,
                 !.nops = @ + 1,
                 !.cb.touched = @ \/ codec.cb.active]
  /\ UNCHANGED codecOthers

\* AudioCodec.remove_audio_listener
RemoveAudioListener(l) ==
  /\ codec.nops < MaxListenerOps
  /\ codec' = [codec EXCEPT
                 !.audio_listeners = RemoveFirst(@, l),
                 !.last_op[l] = "remove",
                 !.last_call = <<"remove", l>>,
                 !.nops = @ + 1,
                 !.cb.touched = @ \/ codec.cb.active]
  /\ UNCHANGED codecOthers

NextCapture ==
  \/ \E n \in 0..MaxChunk : InputCallback(n)
  \/ FanOutStep
  \/ CallbackReturn
  \/ \E l \in Listeners : AddAudioListener(l)
  \/ \E l \in Listeners : RemoveAudioListener(l)

SpecCapture == InitCapture /\ [][NextCapture]_vars

\* C18: a capture callback hands on a frame only of the protocol size.  With
\* a resampler it emits exactly when the buffered and the new samples make
\* up a frame: the frame is the oldest samples in order and the rest stays
\* buffered; otherwise everything stays buffered.  Without a resampler a
\* chunk of any other size is dropped.
C18_OnlyProtocolSizeFrames ==
  [][(codec'.ncallbacks # codec.ncallbacks /\ codec'.last_cb # "failed")
       => LET n == codec'.fed - codec.fed
              all == codec.resample_input_buffer \o NewSamples(codec.fed, n)
          IN /\ codec'.cb.active => Len(codec'.cb.frame) = InputFrameSize
             /\ codec.has_resampler
                  => /\ codec'.cb.active <=> Len(all) >= InputFrameSize
                     /\ codec'.cb.frame \o codec'.resample_input_buffer = all
             /\ ~codec.has_resampler
                  => /\ codec'.cb.active <=> n = InputFrameSize
                     /\ codec'.cb.active
                          => codec'.cb.frame = NewSamples(codec.fed, n)]_vars

\* C18, its case: a callback found too few samples, the next one completed
\* the frame from the samples kept
C18_FrameCompletedFromBuffer ==
  /\ codec.has_resampler /\ codec.cb.active /\ codec.ncallbacks = 2
  /\ codec.cb.frame = <<1, 2>> /\ codec.fed = 3
  /\ codec.resample_input_buffer = <<3>>

\* C19: when the fan-out of a callback is over and the listener list was
\* not changed meanwhile, every registered listener has received the frame,
\* whichever listeners raised and whether or not encoding failed, and a
\* packet that was encoded has been passed to the send callback.
C19_ListenerFailuresIsolated ==
  (FanOutDone(codec) /\ ~codec.cb.touched)
    => /\ codec.cb.got =
            {codec.audio_listeners[i] : i \in 1..Len(codec.audio_listeners)}
       /\ codec.cb.enc = "ok" => codec.cb.sent

\* C19, its case: the first of three listeners raised, the others received
\* the frame, and the encoder had failed
C19_RaisedAndOthersServed ==
  /\ FanOutDone(codec) /\ ~codec.cb.touched
  /\ Len(codec.audio_listeners) = 3
  /\ codec.cb.raised = {codec.audio_listeners[1]}
  /\ Cardinality(codec.cb.got) = 3
  /\ codec.cb.enc = "fails"

\* C20: after every add or remove the list holds no listener twice and holds
\* exactly the listeners whose last call was an add; adding a registered
\* listener or removing an unregistered one leaves the list as it was.
C20_ListenersSetLike ==
  [][codec'.nops # codec.nops
       => LET list == codec.audio_listeners
              list2 == codec'.audio_listeners
              l == codec'.last_call[2]
              member == \E i \in 1..Len(list) : list[i] = l
          IN /\ \A i, j \in 1..Len(list2) : list2[i] = list2[j] => i = j
             /\ \A x \in Listeners :
                  (\E i \in 1..Len(list2) : list2[i] = x)
                    <=> codec'.last_op[x] = "add"
             /\ (codec'.last_call[1] = "add" /\ member) => list2 = list
             /\ (codec'.last_call[1] = "remove" /\ ~member)
                  => list2 = list]_vars

\* C20, its case: a registered listener was added again
C20_AddedTwice ==
  /\ codec.nops = 3 /\ codec.last_call = <<"add", 1>>
  /\ codec.audio_listeners = <<2, 1>>

\* ============================ the lifecycle of the AudioCodec, alone
\* initialize, close and reinitialize_stream called in any order on one
\* codec, with set_encoded_callback, add_audio_listener and write_audio
\* between them.  Only the asyncio.sleep(0.05) of close() suspends: a second
\* close() or a reinitialize_stream can run while a close() sleeps.
MaxLifeCalls == 3     \* calls of initialize, close, reinitialize_stream

\* a lifecycle call returns
Returned(c, name, result) ==
  [c EXCEPT !.life_call = <<name, result>>, !.nreturns = @ + 1]

\* AudioCodec._stop_stream_sync: the stream objects it leaves
StopStreamSync(ss, id) ==
  IF id = 0 THEN ss ELSE [ss EXCEPT ![id].st = "closed"]

\* close() past its guard, up to its sleep: the flag, both streams stopped,
\* closed and dereferenced.  stop() of the input stream returns only when a
\* capture callback that is running on the audio thread has returned.
CloseEnter(c, by) ==
  IF c.cb.active
  THEN [c EXCEPT !.is_closing = TRUE, !.close_pc = "stop", !.close_by = by]
  ELSE [c EXCEPT !.is_closing = TRUE,
                 !.streams = StopStreamSync(StopStreamSync(@, c.input_stream),
                                            c.output_stream),
                 !.input_stream = 0, !.output_stream = 0,
                 !.close_pc = "sleep", !.close_by = by]

\* AudioCodec.set_encoded_callback
SetEncodedCallback ==
  /\ ~codec.encoded_callback
  /\ codec' = [codec EXCEPT !.encoded_callback = TRUE]
  /\ UNCHANGED codecOthers

\* AudioCodec.initialize up to its return or to the sleep of the close() of
\* its rollback; `fail` is the step that raises
Initialize(fail) ==
  /\ codec.ncalls < MaxLifeCalls
  /\ codec.nstreams + 2 <= MaxStreams
  /\ codec.close_pc = "idle"
  /\ codec.input_stream = 0 /\ codec.output_stream = 0
  /\ LET in == codec.nstreams + 1
         out == codec.nstreams + 2
         hasOpus == fail \notin {"device", "opus"}
         hasRes == fail \notin {"device", "opus", "resampler"}
         hasIn == fail \in {"open_out", "start_in", "start_out", "none"}
         hasOut == fail \in {"start_in", "start_out", "none"}
         c == [codec EXCEPT
                 !.ncalls = @ + 1,
                 !.opus = hasOpus, !.resamplers = hasRes,
                 !.input_stream = IF hasIn THEN in ELSE 0,
                 !.output_stream = IF hasOut THEN out ELSE 0,
                 !.nstreams = IF hasOut THEN out ELSE IF hasIn THEN in ELSE @,
                 !.streams =
                    [id \in StreamIds |->
                       IF hasIn /\ id = in
                       THEN [dir |-> "in",
                             st |-> IF fail \in {"start_out", "none"}
                                    THEN "active" ELSE "open"]
                       ELSE IF hasOut /\ id = out
                       THEN [dir |-> "out",
                             st |-> IF fail = "none" THEN "active" ELSE "open"]
                       ELSE @[id]]]
     IN codec' = IF fail = "none" THEN Returned(c, "initialize", "ok")
                 ELSE IF c.is_closing
                 THEN Returned(c, "initialize", "raised")
                 ELSE CloseEnter(c, "initialize")
  /\ UNCHANGED codecOthers

\* AudioCodec.close up to its return on a closing codec or to its sleep
Close ==
  /\ codec.ncalls < MaxLifeCalls
  /\ codec' = IF codec.is_closing
              THEN Returned([codec EXCEPT !.ncalls = @ + 1],
                            "close", "returned")
              ELSE CloseEnter([codec EXCEPT !.ncalls = @ + 1], "close")
  /\ UNCHANGED codecOthers

\* ... the running capture callback has returned: the streams are stopped
CloseStopStreams ==
  /\ codec.close_pc = "stop"
  /\ ~codec.cb.active
  /\ codec' = CloseEnter(codec, codec.close_by)
  /\ UNCHANGED codecOthers

\* ... close after its sleep: callback, listeners, queue, buffers, resamplers
\* and codecs are released; the close, or the initialize that called it, ends
CloseFinish ==
  /\ codec.close_pc = "sleep"
  /\ codec' = Returned([codec EXCEPT
                          !.encoded_callback = FALSE,
                          !.audio_listeners = <<>>,
                          !.output_buffer = <<>>,
                          !.resample_input_buffer = <<>>,
                          !.resamplers = FALSE, !.opus = FALSE,
                          !.close_pc = "idle", !.close_by = "none"],
                       codec.close_by,
                       IF codec.close_by = "initialize" THEN "raised"
                       ELSE "returned")
  /\ UNCHANGED codecOthers

\* reinitialize_stream without its test of the closing flag
ClosingGuardOff(closing) == FALSE

\* reinitialize_stream, its first test
ClosingGuard(closing) == closing

\* AudioCodec.reinitialize_stream: the old stream of one direction is stopped
\* and closed, a new one created and started; creating or starting may raise
ReinitializeStream(is_input) ==
  /\ codec.ncalls < MaxLifeCalls
  /\ codec.nstreams + 1 <= MaxStreams
  /\ (is_input /\ ~ClosingGuard(codec.is_closing)) => ~codec.cb.active
  /\ \E openFails, startFails \in BOOLEAN :
       LET name == IF is_input THEN "reinit_in" ELSE "reinit_out"
           failed == IF is_input THEN "false" ELSE "raised"
           old == IF is_input THEN codec.input_stream ELSE codec.output_stream
           new == codec.nstreams + 1
           c == [codec EXCEPT !.ncalls = @ + 1]
           stopped == [c EXCEPT !.streams = StopStreamSync(@, old)]
           made == [stopped EXCEPT
                      !.nstreams = new,
                      !.input_stream = IF is_input THEN new ELSE @,
                      !.output_stream = IF is_input THEN @ ELSE new,
                      !.streams[new] =
                         [dir |-> IF is_input THEN "in" ELSE "out",
                          st |-> IF startFails THEN "open" ELSE "active"]]
       IN codec' =
            IF ClosingGuard(codec.is_closing) THEN Returned(c, name, "skipped")
            ELSE IF openFails THEN Returned(stopped, name, failed)
            ELSE IF startFails THEN Returned(made, name, failed)
            ELSE Returned(made, name, "ok")
  /\ UNCHANGED codecOthers

NextStreams ==
  \/ \E fail \in {"none", "device", "opus", "resampler", "open_in",
                  "open_out", "start_in", "start_out"} : Initialize(fail)
  \/ Close
  \/ CloseStopStreams
  \/ CloseFinish
  \/ /\ codec.input_stream # 0
     /\ codec.streams[codec.input_stream].st = "active"
     /\ InputCallback(InputFrameSize)
  \/ FanOutStep
  \/ CallbackReturn
  \/ \E is_input \in BOOLEAN : ReinitializeStream(is_input)
  \/ SetEncodedCallback
  \/ \E l \in {1} : AddAudioListener(l)
  \/ WriteAudio

SpecStreams == InitCodec /\ [][NextStreams]_vars

\* C21: a reinitialize_stream of one direction, succeeding or failing, leaves
\* the reference to the other direction's stream and every stream object of
\* the other direction as they were; on a closing codec it changes nothing.
C21_OtherDirectionUntouched ==
  [][(codec'.nreturns # codec.nreturns
        /\ codec'.life_call[1] \in {"reinit_in", "reinit_out"})
       => LET other == IF codec'.life_call[1] = "reinit_in" THEN "out"
                       ELSE "in"
          IN /\ other = "in" => codec'.input_stream = codec.input_stream
             /\ other = "out" => codec'.output_stream = codec.output_stream
             /\ \A id \in StreamIds :
                  codec.streams[id].dir = other
                    => codec'.streams[id] = codec.streams[id]
             /\ codec.is_closing
                  => /\ codec'.life_call[2] = "skipped"
                     /\ [codec' EXCEPT !.life_call = codec.life_call,
                                       !.nreturns = codec.nreturns,
                                       !.ncalls = codec.ncalls] = codec]_vars

\* C21, its case: the render stream could not be reopened and the capture
\* stream that initialize started is still running
C21_RenderFailedCaptureRuns ==
  /\ codec.life_call = <<"reinit_out", "raised">>
  /\ codec.input_stream = 1 /\ codec.streams[1].st = "active"
  /\ codec.streams[2].st = "closed"
  /\ ~codec.is_closing

\* C22: whenever a call of close() returns, whatever was called before it,
\* both streams are closed and dereferenced, the listener list and the send
\* callback are cleared, the playback queue and the resampler buffer are
\* empty and the codec and resampler handles are released.
C22_CloseReleasesEverything ==
  [][(codec'.nreturns # codec.nreturns
        /\ codec'.life_call = <<"close", "returned">>)
       => /\ codec'.input_stream = 0 /\ codec'.output_stream = 0
          /\ \A id \in StreamIds : codec'.streams[id].st \in {"none", "closed"}
          /\ codec'.audio_listeners = <<>> /\ ~codec'.encoded_callback
          /\ codec'.output_buffer = <<>>
          /\ codec'.resample_input_buffer = <<>>
          /\ ~codec'.opus /\ ~codec'.resamplers]_vars

\* C23: whenever initialize() raises, no stream it opened is left open or
\* running and the codec and resampler handles it created are released.
C23_FailedInitializeRolledBack ==
  [][(codec'.nreturns # codec.nreturns
        /\ codec'.life_call = <<"initialize", "raised">>)
       => /\ \A id \in StreamIds : codec'.streams[id].st \in {"none", "closed"}
          /\ codec'.input_stream = 0 /\ codec'.output_stream = 0
          /\ ~codec'.opus /\ ~codec'.resamplers]_vars

\* ======================================= the WakeWordDetector's debounce
\* The detection loop is one task: each result of the classifier goes through
\* _handle_detection_result, whose test and update of last_detection_time
\* have no await between them.  Time is counted in ticks of 0.5 s.
Cooldown == 3         \* detection_cooldown = 1.5 s
MaxWakeTime == 5      \* clock ticks after Epoch
MaxDetections == 3    \* results the classifier returns in a run

\* the player and its tasks, which the components below leave alone
mainVars == <<playerVars, handlerVars, speaking, now, decs, loops, queues,
              output_buffer, nsess, written>>

\* time.time() advances
WakeTick ==
  /\ wake.now < Epoch + MaxWakeTime
  /\ wake' = [wake EXCEPT !.now = @ + 1]
  /\ UNCHANGED <<mainVars, clamp, md, codec, plugin, mix>>

\* the test with the end of the window inside it
InCooldownInclusive(current_time, last) == current_time - last <= Cooldown

\* _handle_detection_result, its test
InCooldown(current_time, last) == current_time - last < Cooldown

\* WakeWordDetector._handle_detection_result: a result inside the window is
\* discarded, any other is recorded and the callback invoked
HandleDetectionResult ==
  /\ Len(wake.detections) < MaxDetections
  /\ wake' = IF InCooldown(wake.now, wake.last_detection_time)
             THEN [wake EXCEPT !.detections = Append(@, wake.now)]
             ELSE [wake EXCEPT !.detections = Append(@, wake.now),
                               !.last_detection_time = wake.now,
                               !.reported = Append(@, wake.now)]
  /\ UNCHANGED <<mainVars, clamp, md, codec, plugin, mix>>

NextWake == WakeTick \/ HandleDetectionResult

SpecWake == Init /\ [][NextWake]_vars

\* C24: the callback is never invoked twice less than the window apart; a
\* result of the classifier is reported exactly when none was reported
\* before or the last report lies at least the window back, and is discarded
\* otherwise.
C24_DebounceWindow ==
  [][Len(wake'.detections) > Len(wake.detections)
       => LET r == wake.reported
              r2 == wake'.reported
              due == r = <<>> \/ wake.now - r[Len(r)] >= Cooldown
          IN /\ \A i \in 1..(Len(r2) - 1) : r2[i + 1] - r2[i] >= Cooldown
             /\ due => r2 = Append(r, wake.now)
             /\ ~due => r2 = r]_vars

\* C24, its case: a result inside the window was discarded, the next one,
\* exactly the window after the first, was reported
C24_CollapsedThenReported ==
  /\ wake.detections = <<Epoch, Epoch + 2, Epoch + 3>>
  /\ wake.reported = <<Epoch, Epoch + 3>>

\* ================================== the silence window of the AudioPlugin
\* on_device_state_changed sets _in_silence_period, sleeps 200 ms and clears
\* the flag in its finally; each call is a coroutine of its own, so a second
\* call can start while the first one sleeps.  The send task of every
\* captured packet asks _should_send_microphone_audio.  Time is counted in
\* ticks of 0.1 s.
SilenceWindow == 2    \* asyncio.sleep(0.2)
MaxPluginTime == 4    \* clock ticks in a run
MaxPackets == 3       \* captured packets offered for sending

\* the event loop's clock advances
PluginTick ==
  /\ plugin.now < MaxPluginTime
  /\ plugin' = [plugin EXCEPT !.now = @ + 1]
  /\ UNCHANGED <<mainVars, clamp, md, codec, wake, mix>>

\* AudioPlugin.on_device_state_changed up to its sleep; any state but
\* LISTENING returns at once
OnDeviceStateChanged(h) ==
  /\ plugin.calls[h].pc = "idle"
  /\ \E state \in {"listening", "speaking"} :
       plugin' = IF state = "listening"
                 THEN [plugin EXCEPT
                         !.in_silence_period = TRUE,
                         !.calls[h] = [pc |-> "sleep", t0 |-> plugin.now]]
                 ELSE [plugin EXCEPT
                         !.calls[h] = [pc |-> "done", t0 |-> 0]]
  /\ UNCHANGED <<mainVars, clamp, md, codec, wake, mix>>

\* ... the sleep is over: the finally clears the flag
SilenceEnd(h) ==
  /\ plugin.calls[h].pc = "sleep"
  /\ plugin.now >= plugin.calls[h].t0 + SilenceWindow
  /\ plugin' = [plugin EXCEPT !.in_silence_period = FALSE,
                              !.calls[h].pc = "done"]
  /\ UNCHANGED <<mainVars, clamp, md, codec, wake, mix>>

\* the send task of one packet: _should_send_microphone_audio decides;
\* capture is app.should_capture_audio()
SendAudio ==
  /\ plugin.packets < MaxPackets
  /\ \E capture \in BOOLEAN :
       plugin' = [plugin EXCEPT
                    !.packets = @ + 1,
                    !.forwarded = ~plugin.in_silence_period /\ capture]
  /\ UNCHANGED <<mainVars, clamp, md, codec, wake, mix>>

NextPlugin ==
  \/ PluginTick
  \/ \E h \in Handlers : OnDeviceStateChanged(h)
  \/ \E h \in Handlers : SilenceEnd(h)
  \/ SendAudio

SpecPlugin == Init /\ [][NextPlugin]_vars

\* C25: no packet is forwarded while less than the silence window has passed
\* since a transition into the listening state, whichever calls of the
\* handler overlap.
C25_NothingForwardedInSilenceWindow ==
  [][(plugin'.packets # plugin.packets /\ plugin'.forwarded)
       => \A h \in Handlers :
            ~(plugin.calls[h].pc = "sleep"
                /\ plugin.now < plugin.calls[h].t0 + SilenceWindow)]_vars

\* ================================================ downmix_to_mono, alone
\* The integer branch converts the samples to float32, takes the mean over
\* the channels in float32, rounds with np.rint, clips and converts back.
\* float32 has a significand of 24 bits: it holds every sample of a type of
\* up to 24 bits, not every sample of a 32-bit type.  The model keeps that
\* relation at a smaller scale: a significand of MantissaBits bits, a sample
\* type of NarrowBits bits that fits it and one of WideBits bits that does
\* not.  Frames have two channels, for which the division of the mean is
\* exact in binary floating point.
MantissaBits == 4     \* stands for the 24-bit significand of float32
NarrowBits == 3       \* stands for int16
WideBits == 6         \* stands for int32

\* every two-channel sample of either type
InitMix ==
  /\ InitPlayer
  /\ clamp = NoClamp /\ md = NoMd /\ codec = NoCodec
  /\ wake = NoWake /\ plugin = NoPlugin
  /\ mix \in UNION {[bits : {b}, done : {FALSE}, y : {0},
                     x : [1..2 -> (0 - 2^(b - 1))..(2^(b - 1) - 1)]] :
                    b \in {NarrowBits, WideBits}}

\* astype(np.float32), and the rounding of a float32 sum: the nearest value
\* with a significand of MantissaBits bits, ties to the even significand
AsFloat32(n) ==
  LET a == IF n < 0 THEN 0 - n ELSE n
      e == CHOOSE k \in {2^i : i \in 0..(WideBits + 2)} :
             /\ a < 2^MantissaBits * k
             /\ k = 1 \/ a >= 2^MantissaBits * (k \div 2)
      q == a \div e
      r == a % e
      m == IF 2 * r < e THEN q
           ELSE IF 2 * r > e THEN q + 1
           ELSE IF q % 2 = 0 THEN q ELSE q + 1
  IN IF n < 0 THEN 0 - m * e ELSE m * e

\* downmix_to_mono on one two-channel sample of a `bits`-bit integer type:
\* the values it can return.  s / 2 is exact, np.rint rounds halves to the
\* even integer.  np.clip compares in float64 when the bounds are promoted
\* by value and in float32 when they are cast to the array's type (then the
\* upper bound of the wide type rounds up and clips nothing); a float above
\* the type's range converts to the lowest value of the type.
DownmixToMono(x, bits) ==
  LET lo == 0 - 2^(bits - 1)
      hi == 2^(bits - 1) - 1
      s == AsFloat32(AsFloat32(x[1]) + AsFloat32(x[2]))
      half == (s - 1) \div 2
      y == IF s % 2 = 0 THEN s \div 2
           ELSE IF half % 2 = 0 THEN half ELSE half + 1
  IN IF y < lo THEN {lo}
     ELSE IF y <= hi THEN {y}
     ELSE {hi} \cup (IF y <= AsFloat32(hi) THEN {lo} ELSE {})

\* downmix_to_mono applied to the sample
ApplyDownmix ==
  /\ ~mix.done
  /\ \E y \in DownmixToMono(mix.x, mix.bits) :
       mix' = [mix EXCEPT !.y = y, !.done = TRUE]
  /\ UNCHANGED <<mainVars, clamp, md, codec, wake, plugin>>

SpecMix == InitMix /\ [][ApplyDownmix]_vars

\* C26: the value returned lies in the range of the sample type and is the
\* mean of the two channels rounded to an integer: it differs from the mean
\* by at most one half.
C26_MeanRoundedInRange ==
  mix.done
    => /\ 0 - 2^(mix.bits - 1) <= mix.y /\ mix.y <= 2^(mix.bits - 1) - 1
       /\ 2 * mix.y - (mix.x[1] + mix.x[2]) \in {-1, 0, 1}

\* C27: between the commands, every decoder started by the player that is
\* still running is the one the player references; so at most one is.
C27_AtMostOneLiveDecoder ==
  op.pc = "" => \A s \in Sessions : decs[s].st = "run" => decoder = s

\* C28: at every moment at most one playback task is alive.
C28_AtMostOneDrainTask ==
  \A l, m \in Sessions : (LoopAlive(loops[l]) /\ LoopAlive(loops[m])) => l = m

\* C29: when the command handled last is a pause (by the user or by speech)
\* that left the player paused, or a seek that restarted playback, and it
\* has returned, a playback task of the session it ended (for pause the
\* player's task, for seek every task but the player's) puts no frame into
\* the shared queue in any step it takes; and when a stop that found the
\* player playing returns (after its reset), no playback task is left
\* waiting to put a frame.
C29_DrainTaskQuiescent ==
  [][\A l \in Sessions :
       /\ (/\ op.pc = "" /\ ncmds' = ncmds
           /\ \/ /\ op.kind \in {"pause", "tts_start"}
                 /\ PlaybackState \in {"PausedManual", "PausedForSpeech"}
                 /\ l = playback_task
              \/ /\ op.kind = "seek" /\ is_playing /\ current_file # 0
                 /\ l # playback_task
           /\ loops'[l] # loops[l])
            => Len(output_buffer') <= Len(output_buffer)
       /\ (op.kind = "stop" /\ op.pc = "ret" /\ op'.pc = "")
            => loops'[l].pc # "write"]_vars

\* C30: a frame that goes into the shared queue was decoded later than
\* every frame of its session that went in before.
C30_DecodeOrderKept ==
  [][\A s \in Sessions :
       Len(output_buffer') = Len(output_buffer) + 1
         => LET f == output_buffer'[Len(output_buffer')]
            IN f[1] = s => f[2] > written[s]]_vars

\* C31: a play request (or the restart of a seek) that finds the assistant
\* speaking records the file and the start offset, leaves the player with
\* is_playing and paused both true, and returns without creating a decoder
\* or a playback task.
C31_DeferredWhileSpeaking ==
  [][(speaking /\ \/ ncmds' # ncmds /\ op'.kind = "play_local"
                  \/ op.pc = "seek_wait" /\ op'.pc # "seek_wait")
       => /\ deferred_path' \in Files
          /\ op.pc = "seek_wait"
               => deferred_path' = current_file /\ deferred_pos' = op.pos
          /\ op.pc # "seek_wait"
               => /\ Duration(deferred_path') = total_duration'
                  /\ deferred_pos' = 0
          /\ is_playing' /\ paused'
          /\ nsess' = nsess /\ decs' = decs /\ loops' = loops
          /\ playback_task' = playback_task
          /\ op'.pc = ""]_vars

\* ... a play request made during speech has returned on a player that never
\* had a decoder
C31_DeferredPendingReached ==
  /\ op.kind = "play_local" /\ op.pc = "" /\ speaking
  /\ PlaybackState = "DeferredPending" /\ deferred_pos = 0
  /\ nsess = 0 /\ decoder = 0 /\ playback_task = 0

\* C32: a pause by the user on a player that is already paused sets the
\* pause source to the user's and changes nothing else of the player, its
\* decoders, tasks and queues; a pause on a player that is not playing
\* changes nothing at all; both return at once.
C32_PauseOnPausedOnlyRetags ==
  [][(ncmds' # ncmds /\ op'.kind = "pause" /\ (~is_playing \/ paused))
       => /\ pause_source' = IF is_playing THEN "manual" ELSE pause_source
          /\ <<is_playing, paused>>' = <<is_playing, paused>>
          /\ <<playerPos, playerFile, playerRefs>>'
               = <<playerPos, playerFile, playerRefs>>
          /\ <<decs, loops, queues, output_buffer>>'
               = <<decs, loops, queues, output_buffer>>
          /\ op'.pc = ""]_vars

\* ... play, speech start (which paused the music with source "tts"), then
\* a pause by the user: the source is now the user's
C32_RetaggedBySecondPause ==
  /\ op.kind = "pause" /\ op.pc = "" /\ ncmds = 3 /\ nsess = 1
  /\ speaking /\ is_playing /\ paused /\ pause_source = "manual"

\* ============================ the reader task of a MusicDecoder, alone
\* MusicDecoder._read_pcm_stream on the pipe of its subprocess, with the
\* queue it fills and the clock.  Time is counted in units of 10 ms and the
\* pipe in bytes; a sample is two bytes (int16, one channel).  In this part md
\* is the reader task: pc is where it stands, remain the bytes the subprocess
\* has still to deliver, chunk the bytes of the read in hand, elapsed the time
\* since the task started, qsize the items in the output queue; seen_qsize and
\* seen_elapsed are the two readings target_sleep was computed from; enq
\* counts the frames enqueued and short_idx is the number of the first one
\* with fewer samples than a frame (0: none).
FrameSamples == 2     \* stands for sample_rate * frame_duration / 1000
FrameTicks == 2       \* stands for AudioConfig.FRAME_DURATION (ms)
RdQueueCap == 10      \* stands for asyncio.Queue(maxsize=100)
MaxStreamBytes == 22  \* longest output of the subprocess
MaxWait == 2          \* longest wait for the pipe in one read
MaxElapsed == 12      \* the clock stops advancing in reads after this
ModerateSleep == 3    \* queue_based_sleep = 0.03
HeavySleep == 6       \* queue_based_sleep = 0.06

InitReader ==
  /\ InitPlayer
  /\ \E n \in 0..MaxStreamBytes :
       /\ n % 2 = 0
       /\ md = [pc |-> "read", remain |-> n, chunk |-> 0, frame_count |-> 0,
                elapsed |-> 0, qsize |-> 0, target_sleep |-> 0,
                seen_qsize |-> 0, seen_elapsed |-> 0, enq |-> 0,
                short_idx |-> 0, sentinel |-> FALSE]
  /\ clamp = NoClamp /\ codec = NoCodec
  /\ wake = NoWake /\ plugin = NoPlugin /\ mix = NoMix

\* the occupancy limiter with both thresholds inclusive
QueueBasedSleepInclusive(qsize, maxsize) ==
  IF maxsize > 0 /\ 10 * qsize > 7 * maxsize THEN HeavySleep
  ELSE IF maxsize > 0 /\ 10 * qsize > 3 * maxsize THEN ModerateSleep
  ELSE 0

\* _read_pcm_stream, strategy 1: queue_ratio = qsize / maxsize (0 for an
\* unbounded queue) against 0.3 and 0.7
QueueBasedSleep(qsize, maxsize) ==
  IF maxsize <= 0 \/ 10 * qsize < 3 * maxsize THEN 0
  ELSE IF 10 * qsize < 7 * maxsize THEN ModerateSleep
  ELSE HeavySleep

\* ... strategy 2 and the maximum of the two
TargetSleep(qsize, maxsize, frame_count, actual_elapsed) ==
  LET expected_elapsed == frame_count * FrameTicks
      time_based_sleep == IF actual_elapsed < expected_elapsed
                          THEN expected_elapsed - actual_elapsed
                          ELSE 0
  IN Max(QueueBasedSleep(qsize, maxsize), time_based_sleep)

\* ... one read of the pipe, which returns what is there, up to a frame.
\* Nothing means the end of the output; an odd number of bytes makes
\* np.frombuffer raise, which ends the task without the sentinel; otherwise
\* the frame is counted and the delay computed.
ReaderRead ==
  /\ md.pc = "read"
  /\ \E k \in 0..Min(2 * FrameSamples, md.remain), d \in 0..MaxWait :
       /\ k = 0 <=> md.remain = 0
       /\ d = 0 \/ md.elapsed + d <= MaxElapsed
       /\ LET e == md.elapsed + d
              n == md.frame_count + 1
          IN md' = IF k = 0
                   THEN [md EXCEPT !.pc = "sentinel", !.elapsed = e]
                   ELSE IF k % 2 # 0
                   THEN [md EXCEPT !.pc = "done", !.elapsed = e,
                                   !.frame_count = n, !.remain = @ - k]
                   ELSE [md EXCEPT
                           !.pc = "sleep", !.elapsed = e, !.frame_count = n,
                           !.remain = @ - k, !.chunk = k,
                           !.seen_qsize = md.qsize, !.seen_elapsed = e,
                           !.target_sleep =
                              TargetSleep(md.qsize, RdQueueCap, n, e)]
  /\ UNCHANGED mdOthers

\* ... asyncio.sleep(target_sleep), skipped when the delay is 0
ReaderSleep ==
  /\ md.pc = "sleep"
  /\ md' = [md EXCEPT !.pc = "put", !.elapsed = @ + md.target_sleep]
  /\ UNCHANGED mdOthers

\* ... the frame is enqueued, or the put times out after 5 s on a full
\* queue and the frame is skipped
ReaderPut ==
  /\ md.pc = "put"
  /\ md' = IF md.qsize < RdQueueCap
           THEN [md EXCEPT
                   !.pc = "read", !.qsize = @ + 1, !.enq = @ + 1, !.chunk = 0,
                   !.short_idx = IF @ = 0 /\ md.chunk < 2 * FrameSamples
                                 THEN md.enq + 1 ELSE @]
           ELSE [md EXCEPT !.pc = "read", !.chunk = 0,
                           !.elapsed = Max(@, MaxElapsed)]
  /\ UNCHANGED mdOthers

\* ... after the end of the output: the sentinel
ReaderSentinel ==
  /\ md.pc = "sentinel"
  /\ md.qsize < RdQueueCap
  /\ md' = [md EXCEPT !.pc = "done", !.qsize = @ + 1, !.sentinel = TRUE]
  /\ UNCHANGED mdOthers

\* the playback task takes an item
ReaderConsume ==
  /\ md.qsize > 0
  /\ md' = [md EXCEPT !.qsize = @ - 1]
  /\ UNCHANGED mdOthers

NextReader ==
  \/ ReaderRead
  \/ ReaderSleep
  \/ ReaderPut
  \/ ReaderSentinel
  \/ ReaderConsume

SpecReader == InitReader /\ [][NextReader]_vars

\* C33: the delay before a frame is enqueued is the larger of the occupancy
\* delay (0 below a fill ratio of 0.3, 30 ms from 0.3 to below 0.7, 60 ms
\* from 0.7) and the wall-clock delay (frames read times the frame duration
\* minus the time since the task started, at least 0), and the put starts
\* exactly that long after the two readings.
C33_DelayIsMaxOfBoth ==
  md.pc \in {"sleep", "put"} =>
    LET occupancy ==
          IF 10 * md.seen_qsize < 3 * RdQueueCap THEN 0
          ELSE IF 10 * md.seen_qsize < 7 * RdQueueCap THEN 3
          ELSE 6
        ahead == md.frame_count * FrameTicks - md.seen_elapsed
        wall == IF ahead > 0 THEN ahead ELSE 0
    IN /\ md.target_sleep = IF occupancy > wall THEN occupancy ELSE wall
       /\ md.pc = "put" => md.elapsed = md.seen_elapsed + md.target_sleep

\* ... the occupancy delay decides on a queue filled to exactly 0.3
C33_OccupancyDelayAtThreshold ==
  /\ md.pc = "put" /\ 10 * md.seen_qsize = 3 * RdQueueCap
  /\ md.target_sleep = ModerateSleep
  /\ md.frame_count * FrameTicks - md.seen_elapsed < ModerateSleep

\* C34: every frame enqueued holds exactly one protocol frame, except that
\* the last frame before the end of the output may be shorter: once a short
\* frame is enqueued it is the last one and nothing remains to be read.
C34_OnlyWholeFrames ==
  md.short_idx # 0 => (md.enq = md.short_idx /\ md.remain = 0)


\* C35: a render callback takes at most one item from the playback queue,
\* and writes silence when it found the queue empty or, with resampling,
\* when fewer resampled samples than it has to deliver are buffered.
C35_RenderTakesAtMostOne ==
  /\ codec.cb_popped <= 1
  /\ (codec.output_resampler = "none" /\ codec.cb_popped = 0
        /\ codec.cb_out # "none") => codec.cb_out = "silence"
  /\ (codec.output_resampler = "held"
        /\ codec.resample_output_buffer >= DevFrames)
       => codec.cb_out = "audio"

\* C36: when close() clears the send callback and the listeners, drains the
\* queue and the buffers and releases the resampler and codec handles, every
\* stream has been stopped and closed before; and once the closing flag is
\* set no capture callback starts on a frame or hands one to a listener.
C36_CloseOrderAndQuietCapture ==
  [][/\ (codec.close_pc = "sleep" /\ codec'.close_pc = "idle")
         => /\ \A id \in StreamIds : codec.streams[id].st \notin {"open", "active"}
            /\ codec.input_stream = 0 /\ codec.output_stream = 0
     /\ codec.is_closing
         => /\ codec'.ncallbacks = codec.ncallbacks
            /\ codec'.cb.got = codec.cb.got]_vars

\* C37: stop() cancels a deferred start.  When the handler that returned last
\* is stop() and a speech-stop event is handled next, that event creates no
\* decoder and leaves the player stopped.
C37_StopCancelsDeferredStart ==
  [][(op.kind = "stop" /\ op.pc = "" /\ op'.kind = "tts_stop")
       => /\ nsess' = nsess
          /\ ~is_playing'
          /\ decs' = decs]_vars

\* C38: while the assistant is speaking, from the speech-start event to the
\* speech-stop event, no playback task puts a frame into the shared playback
\* queue.
C38_NoMusicFrameDuringSpeech ==
  [][(speaking /\ speaking') => Len(output_buffer') <= Len(output_buffer)]_vars

SubSteps == 2         \* sample values between two neighbouring int16 values
Int16Scale == 32768
Int16Bits == 16

InitSample ==
  /\ InitPlayer
  /\ clamp = NoClamp /\ md = NoMd /\ codec = NoCodec
  /\ wake = NoWake /\ plugin = NoPlugin
  /\ mix \in [bits : {Int16Bits}, done : {FALSE}, y : {0},
              x : [{1} -> (0 - SubSteps * Int16Scale)..(SubSteps * Int16Scale)]]

\* astype(np.int16) of the float32 product n / SubSteps: the fraction is
\* dropped (rounding towards zero).  A value outside the type's range has no
\* defined conversion: the builds keep the low 16 bits of the integer, which
\* wraps round, or stop at the end of the range.
AsInt16(n) ==
  LET lo == 0 - 2^(Int16Bits - 1)
      hi == 2^(Int16Bits - 1) - 1
      t == IF n < 0 THEN 0 - ((0 - n) \div SubSteps) ELSE n \div SubSteps
  IN IF lo <= t /\ t <= hi THEN {t}
     ELSE {((t - lo) % 2^Int16Bits) + lo, IF t < lo THEN lo ELSE hi}

\* the conversion applied to the sample
ConvertSample ==
  /\ ~mix.done
  /\ \E y \in AsInt16(mix.x[1]) :
       mix' = [mix EXCEPT !.y = y, !.done = TRUE]
  /\ UNCHANGED <<mainVars, clamp, md, codec, wake, plugin>>

SpecSample == InitSample /\ [][ConvertSample]_vars

\* C40: the converted sample lies in the range of int16 and has the sign of
\* the sample it was converted from: it is never negative for a positive
\* sample nor positive for a negative one, full scale included.
C40_ConversionNeverWraps ==
  mix.done =>
    /\ mix.y >= 0 - 2^(Int16Bits - 1) /\ mix.y <= 2^(Int16Bits - 1) - 1
    /\ mix.x[1] > 0 => mix.y >= 0
    /\ mix.x[1] < 0 => mix.y <= 0

====
